---- MODULE Spec2Model ----
(***************************************************************************)
(* A model of the Feather agent's Run Controller (FeatherAgent.run), its   *)
(* constructor, the system-prompt builder, the tool invoker and the output *)
(* extractor.  The model endpoint and the tools' bodies are the            *)
(* environment: what they return is chosen nondeterministically.           *)
(*                                                                         *)
(* Texts are sequences of tokens, so that trimming, <speak> extraction and *)
(* JSON parsing are computed, not assumed.  A message is <<role, content>> *)
(* and a content is a tagged tuple.                                        *)
(***************************************************************************)
EXTENDS Integers, Sequences, FiniteSets, TLC

VARIABLES
    scenario,          \* which envelope of configurations / responses is explored
    apiKey,            \* process.env.OPENROUTER_API_KEY is set
    config,            \* the FeatherAgentConfig handed to the constructor
    agent,             \* "none" | "ready" | "threw"
    ctorError,         \* the message of the error the constructor threw
    tools,             \* the tools array: config.tools and this.tools are ONE array
    messages,          \* this.messages
    llmCallIteration,  \* this.llmCallIteration
    runs,              \* run() invocations so far
    pc,                \* "idle" | "awaitModel" | "awaitTools" | "returned" | "rejected"
    iterationCount,    \* run()'s local iterationCount
    request,           \* callParams of the model call issued last
    response,          \* the model response consumed last in this run
    functionCalls,     \* run()'s local functionCalls of the current iteration
    results,           \* the settled values of the Promise.all callbacks
    result,            \* the AgentRunResult returned last
    runCalls,          \* model-endpoint calls issued by the current run() invocation
    executed,          \* tool execute() invocations of the current run, in order
    gui,               \* the activation of run() started by the debug server's POST handler
    twin,              \* a second agent, constructed from the same configuration without debug
    held,              \* the array a getMessages() call returned to the caller
    bus,               \* agentEventBus: the keys of its agents map, the llmRequests of the
                       \* agent's entry, the events emitted, the model calls issued so far
    server             \* debugGuiServer: its started flag, the ports its probes in flight
                       \* test, the calls of server.listen and of startServer so far

vars == <<scenario, apiKey, config, agent, ctorError, tools, messages,
          llmCallIteration, runs, pc, iterationCount, request, response,
          functionCalls, results, result, runCalls, executed, gui, twin,
          held, bus, server>>

(***************************************************************************)
(* Bounds of the model.                                                    *)
(***************************************************************************)
MaxRuns == 2
MaxChain == 2
MaxBatch == 2
DeepBudget == 6
ModesBudget == 1
GuiBudget == 2
DebugBudget == 3
VarsBudget == 2
StoreBudget == 2
OverlapBudget == 2
InvokeBudget == 2
CopyBudget == 1
MaxStarts == 3
SinkBudget == 2
MaxInstances == 2
MaxPortOffset == 1
MaxHeldLen == 4
MaxStoreLen == 5
MaxProviders == 2

(***************************************************************************)
(* Program constants.                                                      *)
(***************************************************************************)
DefaultMaxIterations == 5

Unset == -1
Undefined == "undefined"

(***************************************************************************)
(* Texts: a text is a sequence of tokens; " " is white space.              *)
(***************************************************************************)
Empty == <<>>

IsSpace(tok) == tok = " "

RECURSIVE TrimStart(_)
TrimStart(s) ==
    IF s # <<>> /\ IsSpace(Head(s)) THEN TrimStart(Tail(s)) ELSE s

RECURSIVE TrimEnd(_)
TrimEnd(s) ==
    IF s # <<>> /\ IsSpace(s[Len(s)]) THEN TrimEnd(SubSeq(s, 1, Len(s) - 1)) ELSE s

\* String.prototype.trim
Trim(s) == TrimEnd(TrimStart(s))

\* The least index >= from at which tok stands in s, 0 when there is none.
RECURSIVE IndexFrom(_, _, _)
IndexFrom(s, tok, from) ==
    IF from > Len(s) THEN 0
    ELSE IF s[from] = tok THEN from
    ELSE IndexFrom(s, tok, from + 1)

\* Mutant: the group is greedy, [\s\S]* for [\s\S]*?, and runs to the last </speak>.
SpeakMatch_Greedy(content) ==
    LET open == IndexFrom(content, "<speak>", 1)
        closes == { j \in 1..Len(content) : j > open /\ content[j] = "</speak>" }
    IN  IF open = 0 \/ closes = {} THEN <<FALSE, Empty>>
        ELSE <<TRUE, SubSeq(content, open + 1,
                            (CHOOSE j \in closes : \A k \in closes : k <= j) - 1)>>

\* content.match(/<speak>([\s\S]*?)<\/speak>/): <<TRUE, group 1>> or <<FALSE, <<>>>>
SpeakMatch(content) ==
    LET open == IndexFrom(content, "<speak>", 1)
        close == IF open = 0 THEN 0 ELSE IndexFrom(content, "</speak>", open + 1)
    IN  IF close = 0 THEN <<FALSE, Empty>>
        ELSE <<TRUE, SubSeq(content, open + 1, close - 1)>>

\* JSON.parse succeeds on a text that is one JSON document, white space around it allowed.
JsonParses(text) == Trim(text) = <<"{json}">>

(***************************************************************************)
(* Tools.  A tool is named by an identifier; "finish_run" is the built-in  *)
(* finishRunTool and "user_finish" a caller's tool whose function.name is  *)
(* finish_run.                                                             *)
(***************************************************************************)
finishRunTool == "finish_run"

ToolName(t) == IF t = "user_finish" THEN "finish_run" ELSE t

\* this.tools.find(t => t.function.name === name): the index, 0 when absent
RECURSIVE FindFrom(_, _, _)
FindFrom(arr, name, i) ==
    IF i > Len(arr) THEN 0
    ELSE IF ToolName(arr[i]) = name THEN i
    ELSE FindFrom(arr, name, i + 1)

FindTool(arr, name) == FindFrom(arr, name, 1)

\* this.tools.some(t => t.function && t.function.name === "finish_run")
AlreadyHasFinishRun(arr) == FindTool(arr, "finish_run") # 0

(***************************************************************************)
(* The constructor, as a function of the configuration, the tools array it *)
(* is handed and the environment: what it throws, and the array after it.  *)
(***************************************************************************)
ErrNoKey == "No OpenRouter API key provided in config or environment!"
ErrExclusive == "Cannot use both cognition and structuredOutputSchema - they are mutually exclusive."
ErrForceChain == "Cannot enable chainRun when forceTool is true."
ErrForceOne == "forceTool requires exactly ONE tool in the tools array."

\* Mutant: the tool-count test only rejects an empty tools array.
ForceToolError_AtLeastOne(cfg, arr) ==
    IF ~cfg.forceTool THEN Undefined
    ELSE IF cfg.chainRun THEN ErrForceChain
    ELSE IF Len(arr) < 1 THEN ErrForceOne
    ELSE Undefined

ForceToolError(cfg, arr) ==
    IF ~cfg.forceTool THEN Undefined
    ELSE IF cfg.chainRun THEN ErrForceChain
    ELSE IF Len(arr) # 1 THEN ErrForceOne
    ELSE Undefined

\* Mutant: the mutual-exclusion test of the output modes (136-138) is lost.
ConstructorError_NoExclusive(cfg, arr, key) ==
    IF ~key THEN ErrNoKey ELSE ForceToolError(cfg, arr)

ConstructorError(cfg, arr, key) ==
    IF ~key THEN ErrNoKey
    ELSE IF cfg.cognition /\ cfg.structuredOutputSchema THEN ErrExclusive
    ELSE ForceToolError(cfg, arr)

\* decodeURIComponent(agentId) in agentEventBus.registerAgent: a "%" that does
\* not start an escape makes it throw.
ErrUriMalformed == "URI malformed"

DecodeThrows(agentId) == agentId = "100%"

\* Lines 178-182: what the registration of a debug agent throws.
RegisterError(cfg) ==
    IF cfg.debug /\ DecodeThrows(cfg.agentId) THEN ErrUriMalformed ELSE Undefined

\* The tools array after the constructor ran (it pushes onto the caller's array).
\* Mutant: the finish_run tool is pushed without looking for one of that name.
ToolsAfterConstructor_AlwaysPush(cfg, arr, key) ==
    IF ConstructorError(cfg, arr, key) # Undefined THEN arr
    ELSE IF cfg.chainRun THEN Append(arr, finishRunTool)
    ELSE arr

ToolsAfterConstructor(cfg, arr, key) ==
    IF ConstructorError(cfg, arr, key) # Undefined THEN arr
    ELSE IF cfg.chainRun /\ ~AlreadyHasFinishRun(arr) THEN Append(arr, finishRunTool)
    ELSE arr

(***************************************************************************)
(* The system prompt: the sequence of the blocks it is composed of.        *)
(***************************************************************************)
MaxIters(cfg) ==
    IF cfg.maxChainIterations = Unset THEN DefaultMaxIterations ELSE cfg.maxChainIterations

\* Lines 231-233: the chain-run instructions, which state the iteration budget.
ChainInstructions(maxIters) ==
    "CHAIN RUNNING ENABLED for " \o ToString(maxIters) \o " iterations"

\* Lines 236-238
LastIterationWarning == "WARNING LAST ITERATION"

\* Mutant: the warning is also given on the iteration before the last.
ChainBlocks_WarnEarly(cfg, iteration) ==
    IF ~cfg.chainRun THEN <<>>
    ELSE IF iteration # 0 /\ iteration >= MaxIters(cfg) - 1
         THEN <<ChainInstructions(MaxIters(cfg)), LastIterationWarning>>
         ELSE <<ChainInstructions(MaxIters(cfg))>>

ChainBlocks(cfg, iteration) ==
    IF ~cfg.chainRun THEN <<>>
    ELSE IF iteration # 0 /\ iteration = MaxIters(cfg)
         THEN <<ChainInstructions(MaxIters(cfg)), LastIterationWarning>>
         ELSE <<ChainInstructions(MaxIters(cfg))>>

OutputFormatBlocks(cfg) ==
    IF cfg.cognition THEN <<"OUTPUT FORMAT cognition">>
    ELSE IF cfg.structuredOutputSchema THEN <<"OUTPUT FORMAT schema">>
    ELSE <<>>

(***************************************************************************)
(* Dynamic variables.  The base prompt is a sequence of tokens, some of    *)
(* them placeholders; config.dynamicVariables is the sequence of its       *)
(* entries in Object.keys order, each a key and what its provider does     *)
(* when called.                                                            *)
(***************************************************************************)
Keys == {"x", "y", "c++"}

\* The tokens new RegExp(`{{\\s*${key}\\s*}}`, 'g') matches.
Placeholders(key) ==
    CASE key = "x" -> {"{{x}}", "{{ x }}"}
      [] key = "y" -> {"{{y}}"}
      [] OTHER     -> {}

\* new RegExp throws a SyntaxError when the key is not a valid pattern:
\* in "c++" the second quantifier has nothing to repeat.
RegExpThrows(key) == key = "c++"

ProviderValue(key) ==
    CASE key = "x" -> "value of x"
      [] key = "y" -> "value of y"
      [] OTHER     -> "value of c++"

ErrorPlaceholder(key) ==
    CASE key = "x" -> "[Error retrieving dynamic variable: x]"
      [] key = "y" -> "[Error retrieving dynamic variable: y]"
      [] OTHER     -> "[Error retrieving dynamic variable: c++]"

\* finalPrompt.replace(regex, text) with the g flag
ReplaceAll(prompt, key, text) ==
    [i \in 1..Len(prompt) |-> IF prompt[i] \in Placeholders(key) THEN text ELSE prompt[i]]

\* Lines 192-214: the loop over the keys from entry k on.  The RegExp is built
\* inside the try after the provider was called, and again inside the catch,
\* so a key that is no valid pattern makes the function throw.
RECURSIVE ApplyFrom(_, _, _)
ApplyFrom(prompt, dv, k) ==
    IF k > Len(dv) THEN [threw |-> FALSE, prompt |-> prompt]
    ELSE IF RegExpThrows(dv[k][1]) THEN [threw |-> TRUE, prompt |-> <<>>]
    ELSE ApplyFrom(ReplaceAll(prompt, dv[k][1],
                              IF dv[k][2] = "returns" THEN ProviderValue(dv[k][1])
                              ELSE ErrorPlaceholder(dv[k][1])),
                   dv, k + 1)

ApplySystemPromptTemplate(cfg) == ApplyFrom(cfg.systemPrompt, cfg.dynamicVariables, 1)

\* buildSystemPrompt throws what applySystemPromptTemplate throws.
PromptThrows(cfg) == ApplySystemPromptTemplate(cfg).threw

BuildSystemPrompt(cfg, iteration) ==
    ApplySystemPromptTemplate(cfg).prompt \o ChainBlocks(cfg, iteration)
        \o OutputFormatBlocks(cfg)

IsOutputFormat(block) == block \in {"OUTPUT FORMAT cognition", "OUTPUT FORMAT schema"}

(***************************************************************************)
(* run(): the iteration bound, the tool-choice directive, the request.     *)
(***************************************************************************)
\* Mutant: the autoExecuteTools flag is not consulted.
AutoExec_Always(cfg) == TRUE

AutoExec(cfg) == cfg.autoExecuteTools # FALSE

\* Mutant: the forceTool override of the bound (lines 351-354) is lost.
MaxIterations_NoForceOverride(cfg) ==
    IF cfg.chainRun THEN MaxIters(cfg) ELSE DefaultMaxIterations

\* Mutant: the loop condition admits one more iteration (<= for <).
MaxIterations_OneMore(cfg) ==
    IF cfg.forceTool THEN 2
    ELSE IF cfg.chainRun THEN MaxIters(cfg) + 1
    ELSE DefaultMaxIterations + 1

MaxIterations(cfg) ==
    IF cfg.forceTool THEN 1
    ELSE IF cfg.chainRun THEN MaxIters(cfg)
    ELSE DefaultMaxIterations

Auto == <<"auto">>
Function(name) == <<"function", name>>

ForcedToolChoice(cfg, arr, iteration) ==
    IF cfg.forceTool /\ Len(arr) = 1 THEN Function(ToolName(arr[1]))
    ELSE IF cfg.chainRun /\ iteration = MaxIterations(cfg) THEN Function("finish_run")
    ELSE Auto

\* callParams: the spread of additionalParams comes last and overrides a key it holds.
CallParams(cfg, arr, msgs, iteration) ==
    [ messages    |-> msgs,
      tools       |-> [i \in 1..Len(arr) |-> ToolName(arr[i])],
      tool_choice |-> IF cfg.toolChoiceParam # Undefined
                      THEN <<cfg.toolChoiceParam>>
                      ELSE ForcedToolChoice(cfg, arr, iteration),
      response_format |-> cfg.structuredOutputSchema,
      iteration   |-> iteration ]

NoRequest ==
    [ messages |-> <<>>, tools |-> <<>>, tool_choice |-> <<>>,
      response_format |-> FALSE, iteration |-> 0 ]

(***************************************************************************)
(* Messages.                                                               *)
(***************************************************************************)
Msg(role, content) == <<role, content>>
Role(m) == m[1]
Content(m) == m[2]

SystemMessage(blocks) == Msg("system", <<"prompt", blocks>>)
UserMessage(text) == Msg("user", <<"parts", text>>)
AssistantMessage(text) == Msg("assistant", <<"text", text>>)

\* The strings a Promise.all callback returns.
ToolBlock(name, args, toolResult) == <<"block", name, args, toolResult>>
ToolError(name, message) == <<"error", name, message>>
ToolNotFound(name) == <<"notfound", name>>

(***************************************************************************)
(* The Output Extractor.  An output is <<"str", text>> or, parsed,         *)
(* <<"json", text>>.                                                       *)
(***************************************************************************)
\* Mutant: when JSON.parse throws, the content is returned as it came, not trimmed.
FinalOutput_RawOnParseFailure(cfg, content) ==
    LET speak == SpeakMatch(content)
        finalOutput == IF cfg.cognition /\ speak[1] THEN Trim(speak[2]) ELSE Trim(content)
    IN  IF cfg.structuredOutputSchema
        THEN (IF JsonParses(finalOutput) THEN <<"json", Trim(finalOutput)>>
              ELSE <<"str", content>>)
        ELSE <<"str", finalOutput>>

\* Lines 497-514: the final output of a response without tool calls.
FinalOutput(cfg, content) ==
    LET speak == SpeakMatch(content)
        finalOutput == IF cfg.cognition /\ speak[1] THEN Trim(speak[2]) ELSE Trim(content)
    IN  IF cfg.structuredOutputSchema /\ JsonParses(finalOutput)
        THEN <<"json", Trim(finalOutput)>>
        ELSE <<"str", finalOutput>>

\* Lines 530-536: the output returned with unexecuted function calls.
PendingOutput(cfg, content) ==
    LET speak == SpeakMatch(content)
    IN  <<"str", IF cfg.cognition /\ speak[1] THEN Trim(speak[2]) ELSE Trim(content)>>

Success(output, calls) ==
    [ success |-> TRUE, output |-> output, error |-> Undefined, functionCalls |-> calls ]

Failure(errorMsg) ==
    [ success |-> FALSE, output |-> <<"str", Empty>>, error |-> errorMsg,
      functionCalls |-> <<>> ]

NoResult ==
    [ success |-> FALSE, output |-> <<"none", Empty>>, error |-> Undefined,
      functionCalls |-> <<>> ]

ErrNoResponse == "No response from model"
ErrNoMessage == "No message in model choice"
ErrMaxIterations == "Max iterations reached"

\* Mutant: the fallback for an error without a message is lost.
LlmErrorMessage_NoDefault(message) == message

\* err.message || "Unknown LLM error"
LlmErrorMessage(message) == IF message = "" THEN "Unknown LLM error" ELSE message

(***************************************************************************)
(* The Tool Invoker.  The model sends each call's arguments as a string:   *)
(* <<kind, text>> with kind "empty" (""), "badjson", "object" (an object   *)
(* without final_response), "final" (final_response is the text) or        *)
(* "nonstring" (final_response is a number).                               *)
(***************************************************************************)
ArgObject == <<"object", Empty>>
ArgEmpty == <<"empty", Empty>>
ArgBadJson == <<"badjson", Empty>>
ArgNonString == <<"nonstring", Empty>>
ArgFinal(text) == <<"final", text>>

\* functionArgs: tc.function.arguments || {}
FunctionArgs(arguments) == IF arguments = ArgEmpty THEN <<"{}", Empty>> ELSE arguments

\* functionCalls = tool_calls.map(...)
FunctionCallsOf(tool_calls) ==
    [i \in 1..Len(tool_calls) |-> <<tool_calls[i][1], FunctionArgs(tool_calls[i][2])>>]

Returned(toolResult) == <<"ok", toolResult>>
Raised(message) == <<"raise", message>>

\* finishRunTool.execute: { result: params.final_response || "" }, or JSON.parse throws
FinishRunExecute(args) ==
    CASE args[1] = "badjson"   -> Raised("Unexpected token")
      [] args[1] = "final"     -> Returned(<<"result", args[2]>>)
      [] args[1] = "nonstring" -> Returned(<<"nonstring", Empty>>)
      [] OTHER                 -> Returned(<<"result", Empty>>)

\* What a caller's tool may do: return a value or raise.  A tool result is
\* <<"result", text>> (an object whose result is the text), <<"value", _>> (no
\* result property) or <<"nonstring", _>> (result is not a string).
UserOutcomes(tool) ==
    IF tool = "user_finish"
    THEN { Returned(<<"result", <<" ", "u", " ">>>>), Returned(<<"value", Empty>>),
           Raised("boom") }
    ELSE { Returned(<<"value", Empty>>), Raised("boom") }

ExecuteOutcomes(tool, args) ==
    IF tool = finishRunTool THEN { FinishRunExecute(args) } ELSE UserOutcomes(tool)

Pending == <<"pending">>
Str(content) == <<"str", content>>
FinishRunInvoked(text) == <<"finish", text>>

\* Lines 557-584: what the callback of one call returns once execute settled.
\* Mutant: a finish_run call that raises still finalizes, with an empty response.
CallbackValue_FinishAlways(fc, outcome) ==
    IF outcome[1] = "raise"
    THEN (IF fc[1] = "finish_run" THEN FinishRunInvoked(Empty)
          ELSE Str(ToolError(fc[1], outcome[2])))
    ELSE LET toolResult == outcome[2]
         IN  IF fc[1] = "finish_run"
             THEN CASE toolResult[1] = "result"    -> FinishRunInvoked(Trim(toolResult[2]))
                    [] toolResult[1] = "nonstring" -> FinishRunInvoked(Empty)
                    [] OTHER                       -> FinishRunInvoked(Empty)
             ELSE Str(ToolBlock(fc[1], fc[2], toolResult))

CallbackValue(fc, outcome) ==
    IF outcome[1] = "raise" THEN Str(ToolError(fc[1], outcome[2]))
    ELSE LET toolResult == outcome[2]
         IN  IF fc[1] = "finish_run"
             THEN CASE toolResult[1] = "result"    -> FinishRunInvoked(Trim(toolResult[2]))
                    [] toolResult[1] = "nonstring" ->
                           Str(ToolError(fc[1], "trim is not a function"))
                    [] OTHER                       -> FinishRunInvoked(Empty)
             ELSE Str(ToolBlock(fc[1], fc[2], toolResult))

\* Mutant: a missing tool is reported as a tool error.
Dispatch_MissingAsError(arr, calls) ==
    [i \in 1..Len(calls) |->
        IF FindTool(arr, calls[i][1]) = 0 THEN Str(ToolError(calls[i][1], "not found"))
        ELSE Pending]

\* Lines 549-558: what the callbacks do synchronously when the batch is mapped:
\* a missing tool gives its text at once, a found tool's execute is invoked.
Dispatch(arr, calls) ==
    [i \in 1..Len(calls) |->
        IF FindTool(arr, calls[i][1]) = 0 THEN Str(ToolNotFound(calls[i][1])) ELSE Pending]

RECURSIVE InvokedFrom(_, _, _)
InvokedFrom(arr, calls, i) ==
    IF i > Len(calls) THEN <<>>
    ELSE (IF FindTool(arr, calls[i][1]) = 0 THEN <<>> ELSE <<calls[i]>>)
         \o InvokedFrom(arr, calls, i + 1)

Invoked(arr, calls) == InvokedFrom(arr, calls, 1)

\* results.find(r => r?._finishRunInvoked === true): the index, 0 when none
RECURSIVE FinishIndexFrom(_, _)
FinishIndexFrom(rs, i) ==
    IF i > Len(rs) THEN 0
    ELSE IF rs[i][1] = "finish" THEN i
    ELSE FinishIndexFrom(rs, i + 1)

\* Mutant: a batch in which some call failed is not searched for finish_run.
FinishRunCall_UnlessError(rs) ==
    IF \E i \in 1..Len(rs) : rs[i][1] = "str" /\ rs[i][2][1] = "error" THEN 0
    ELSE FinishIndexFrom(rs, 1)

FinishRunCall(rs) == FinishIndexFrom(rs, 1)

\* Lines 594-601: the message appended for finish_run
FinishRunMessage(finalText) ==
    Msg("user", ToolBlock("finish_run", <<"final", finalText>>, <<"result", finalText>>))

\* Lines 619-627: one user message per string result, in the order of the calls
RECURSIVE ResultMessagesFrom(_, _)
ResultMessagesFrom(rs, i) ==
    IF i > Len(rs) THEN <<>>
    ELSE (IF rs[i][1] = "str" THEN <<Msg("user", rs[i][2])>> ELSE <<>>)
         \o ResultMessagesFrom(rs, i + 1)

\* Mutant: the results after a failed call are not appended.
ResultMessages_UntilError(rs) ==
    IF \E i \in 1..Len(rs) : rs[i][2][1] = "error"
    THEN ResultMessagesFrom(SubSeq(rs, 1, (CHOOSE i \in 1..Len(rs) : rs[i][2][1] = "error") - 1), 1)
    ELSE ResultMessagesFrom(rs, 1)

\* Mutant: the results are appended last call first.
ResultMessages_Reversed(rs) ==
    ResultMessagesFrom([i \in 1..Len(rs) |-> rs[Len(rs) + 1 - i]], 1)

ResultMessages(rs) == ResultMessagesFrom(rs, 1)

(***************************************************************************)
(* The environment: the configurations a caller may pass, and what the     *)
(* model endpoint may answer.  Three envelopes are explored:               *)
(*   "deep"  - the loop to its full depth: configurations without output   *)
(*             mode, single-call batches of one tool, DeepBudget answers;  *)
(*   "wide"  - the first iteration of a run, with batches of up to         *)
(*             MaxBatch calls of every kind; later model calls are issued  *)
(*             and left unanswered;                                        *)
(*   "modes" - every configuration (output modes, additionalParams), every *)
(*             kind of content, ModesBudget answers.                       *)
(***************************************************************************)
ToolArrays(scn) ==
    IF scn \in {"vars", "store", "overlap", "invoke", "copy", "sink"} THEN { <<"calc">> }
    ELSE IF scn = "wide" THEN { <<>>, <<"calc">>, <<"calc", "user_finish">> }
    ELSE IF scn \in {"gui", "debug"} THEN { <<>>, <<"calc">> }
    ELSE { <<>>, <<"calc">>, <<"calc", "search">>, <<"calc", "user_finish">> }

Configs ==
    { c \in [ cognition : BOOLEAN, structuredOutputSchema : BOOLEAN,
              chainRun : BOOLEAN, maxChainIterations : {Unset} \cup 0..MaxChain,
              forceTool : BOOLEAN, autoExecuteTools : BOOLEAN,
              toolChoiceParam : {Undefined, "none"},
              debug : BOOLEAN, agentId : {"a", "100%"} ] :
        c.chainRun \/ c.maxChainIterations = Unset }

\* config.dynamicVariables: up to MaxProviders entries with distinct keys, each
\* provider returning its value or raising.
ProviderLists ==
    UNION { { dv \in [1..n -> Keys \X {"returns", "raises"}] :
                \A i, j \in 1..n : dv[i][1] = dv[j][1] => i = j } : n \in 0..MaxProviders }

\* A configuration without dynamic variables, its system prompt plain text.
NoVariables(c) == c @@ [systemPrompt |-> <<"base">>, dynamicVariables |-> <<>>]

ConfigsOf(scn) ==
    LET Plain == { c \in Configs : ~c.cognition /\ ~c.structuredOutputSchema
                                   /\ c.toolChoiceParam = Undefined }
    IN  CASE scn = "modes" -> { NoVariables(c) : c \in { c \in Configs : ~c.debug /\ c.agentId = "a" } }
          [] scn = "debug" -> { NoVariables(c) : c \in { c \in Plain : c.debug } }
          [] scn = "gui"   -> { NoVariables(c) : c \in { c \in Plain : c.debug /\ c.agentId = "a" } }
          [] scn = "sink" ->
                 { [NoVariables(c) EXCEPT !.agentId = id] :
                     c \in { c \in Plain : /\ c.debug /\ c.agentId = "a" /\ ~c.forceTool
                                            /\ c.autoExecuteTools
                                            /\ c.maxChainIterations \in {Unset, 1} },
                     id \in {"a", "a%20b"} }
          [] scn = "server" -> { NoVariables(c) : c \in { c \in Plain : c.agentId = "a" } }
          [] scn = "vars"  ->
                 { c @@ [systemPrompt |-> <<"base", "{{x}}", "{{y}}", "{{ x }}">>,
                         dynamicVariables |-> dv] :
                     c \in { c \in Plain : /\ ~c.debug /\ c.agentId = "a" /\ ~c.forceTool
                                            /\ c.autoExecuteTools
                                            /\ c.maxChainIterations \in {Unset, 1} },
                     dv \in ProviderLists }
          [] scn = "overlap" ->
                 { NoVariables(c) : c \in { c \in Plain : /\ c.debug /\ c.agentId = "a"
                                                          /\ ~c.forceTool /\ ~c.chainRun
                                                          /\ c.autoExecuteTools } }
          [] scn = "copy" ->
                 { NoVariables(c) : c \in { c \in Plain : /\ ~c.debug /\ c.agentId = "a"
                                                          /\ ~c.forceTool /\ ~c.chainRun
                                                          /\ c.autoExecuteTools } }
          [] scn = "invoke" ->
                 { NoVariables(c) : c \in { c \in Plain : /\ ~c.debug /\ c.agentId = "a"
                                                          /\ ~c.forceTool
                                                          /\ c.autoExecuteTools
                                                          /\ c.maxChainIterations \in {Unset, 2} } }
          [] scn = "store" ->
                 { NoVariables(c) : c \in { c \in Plain : /\ ~c.debug /\ c.agentId = "a"
                                                          /\ ~c.forceTool
                                                          /\ c.maxChainIterations \in {Unset, 1} } }
          [] OTHER         -> { NoVariables(c) : c \in { c \in Plain : ~c.debug /\ c.agentId = "a" } }

\* A chainRun configuration of another agent constructed over the same tools array.
SiblingConfig ==
    [ cognition |-> FALSE, structuredOutputSchema |-> FALSE, chainRun |-> TRUE,
      maxChainIterations |-> Unset, forceTool |-> FALSE, autoExecuteTools |-> TRUE,
      toolChoiceParam |-> Undefined, debug |-> FALSE, agentId |-> "a",
      systemPrompt |-> <<"base">>, dynamicVariables |-> <<>> ]

\* run() called without an argument: userInput is undefined.
NoInput == <<"(undefined)">>

\* if (userInput): undefined and the empty string are falsy.
Truthy(userInput) == userInput # NoInput /\ userInput # Empty

UserInputs(scn) == IF scn = "modes" THEN { NoInput, Empty, <<"q">> } ELSE { <<"q">> }

\* A response whose message has no content (null).
Absent == <<"(absent)">>

\* Line 480: choice.message.content || ""
ContentOf(resp) == IF resp.content = Absent THEN Empty ELSE resp.content

FinalContents(scn) ==
    IF scn = "vars" THEN { <<" ", "a", " ">>, Absent }
    ELSE IF scn = "modes"
    THEN { Empty, <<" ", "a", " ">>, <<"x", "<speak>", " ", "b", "</speak>">>,
           <<" ", "{json}">>, <<"<speak>", "{json}", " ", "</speak>", "</speak>">>,
           <<"</speak>", "<speak>", "c">> }
    ELSE { <<" ", "a", " ">> }

CallContents(scn) ==
    IF scn = "vars" THEN { <<" ", "a", " ">>, Absent }
    ELSE IF scn = "modes" THEN { <<" ", "a", " ">>, <<"<speak>", "b", " ", "</speak>">> }
    ELSE { <<" ", "a", " ">> }

ToolCalls(scn) ==
    IF scn = "wide"
    THEN { <<"calc", ArgObject>>, <<"ghost", ArgObject>>,
           <<"finish_run", ArgBadJson>>, <<"finish_run", ArgNonString>>,
           <<"finish_run", ArgEmpty>>, <<"finish_run", ArgFinal(<<" ", "o", "k">>)>> }
    ELSE IF scn = "modes"
    THEN { <<"calc", ArgObject>>, <<"finish_run", ArgNonString>> }
    ELSE IF scn = "invoke"
    THEN { <<"calc", ArgObject>>, <<"calc", ArgEmpty>>, <<"ghost", ArgObject>> }
    ELSE { <<"calc", ArgObject>> }

BatchCap(scn) == IF scn \in {"wide", "invoke"} THEN MaxBatch ELSE 1

Batches(scn) == UNION { [1..k -> ToolCalls(scn)] : k \in 1..BatchCap(scn) }

\* run() invocations explored
RunCap(scn) ==
    IF scn \in {"wide", "live", "gui", "store", "overlap", "invoke", "copy", "sink"} THEN 1
    ELSE MaxRuns

\* The model calls (counted over the agent's life) the endpoint answers.
Budget(scn) ==
    CASE scn \in {"deep", "live"} -> DeepBudget
      [] scn = "wide"  -> 1
      [] scn = "gui"   -> GuiBudget
      [] scn = "debug" -> DebugBudget
      [] scn = "vars"  -> VarsBudget
      [] scn = "store" -> StoreBudget
      [] scn = "overlap" -> OverlapBudget
      [] scn = "invoke" -> InvokeBudget
      [] scn = "copy" -> CopyBudget
      [] scn = "sink" -> SinkBudget
      [] OTHER         -> ModesBudget

Resp(kind, message, content, tool_calls) ==
    [ kind |-> kind, message |-> message, content |-> content, tool_calls |-> tool_calls ]

NoResponse == Resp("none", "", Empty, <<>>)

FailedResponses ==
    { Resp("raise", m, Empty, <<>>) : m \in {"", "boom"} }
    \cup { Resp("nochoices", "", Empty, <<>>), Resp("nomessage", "", Empty, <<>>) }

MessageResponses(scn) ==
    { Resp("message", "", c, <<>>) : c \in FinalContents(scn) }
    \cup { Resp("message", "", c, b) : c \in CallContents(scn), b \in Batches(scn) }

\* An activation of run(): what one invocation reads and writes, the agent's
\* store and call counter included.
NoActivation ==
    [ messages |-> <<>>, llmCallIteration |-> 0, pc |-> "idle", iterationCount |-> 0,
      request |-> NoRequest, response |-> NoResponse, functionCalls |-> <<>>,
      results |-> <<>>, result |-> NoResult, runCalls |-> 0, executed |-> <<>> ]

\* A second agent: what its constructor left, and the activation of its run().
NoTwin == [ agent |-> "none", ctorError |-> Undefined, tools |-> <<>>, run |-> NoActivation ]

\* No getMessages() call has been made.
NoHeld == [ array |-> "none", elems |-> <<>> ]

\* agentEventBus as the module creates it: no agent, nothing emitted.
NoBus == [ agents |-> {}, llmRequests |-> <<>>, events |-> <<>>, issued |-> 0 ]

\* debugGuiServer as the module creates it: not started, listen never called.
NoServer == [ started |-> FALSE, probes |-> <<>>, listens |-> 0, calls |-> 0 ]

(***************************************************************************)
(* Initial state: nothing constructed yet.                                 *)
(***************************************************************************)
InitOf(scn) ==
    /\ scenario = scn
    /\ apiKey \in BOOLEAN
    /\ config \in ConfigsOf(scn)
    /\ tools \in ToolArrays(scn)
    /\ agent = "none"
    /\ ctorError = Undefined
    /\ messages = <<>>
    /\ llmCallIteration = 0
    /\ runs = 0
    /\ pc = "idle"
    /\ iterationCount = 0
    /\ request = NoRequest
    /\ response = NoResponse
    /\ functionCalls = <<>>
    /\ results = <<>>
    /\ result = NoResult
    /\ runCalls = 0
    /\ executed = <<>>
    /\ gui = NoActivation
    /\ twin = NoTwin
    /\ held = NoHeld
    /\ bus = NoBus
    /\ server = NoServer

Init == InitOf("deep")

InitWide == InitOf("wide")

InitModes == InitOf("modes")

InitGui == InitOf("gui")

InitDebug == InitOf("debug")

\* new FeatherAgent(config)
Construct ==
    /\ agent = "none"
    /\ ctorError' = IF ConstructorError(config, tools, apiKey) # Undefined
                    THEN ConstructorError(config, tools, apiKey)
                    ELSE RegisterError(config)
    /\ agent' = IF ctorError' = Undefined THEN "ready" ELSE "threw"
    /\ tools' = ToolsAfterConstructor(config, tools, apiKey)
    /\ messages' = IF ctorError' = Undefined THEN <<SystemMessage(<<>>)>> ELSE <<>>
    /\ UNCHANGED <<scenario, apiKey, config, llmCallIteration, runs, pc, iterationCount,
                   request, response, functionCalls, results, result, runCalls, executed>>

\* new FeatherAgent({..., chainRun: true, tools: <the same array>}) by the caller
ConstructSibling ==
    /\ agent = "ready"
    /\ tools' = ToolsAfterConstructor(SiblingConfig, tools, apiKey)
    /\ UNCHANGED <<scenario, apiKey, config, agent, ctorError, messages, llmCallIteration,
                   runs, pc, iterationCount, request, response, functionCalls, results,
                   result, runCalls, executed>>

\* Mutant: the system message is not rebuilt before the model call.
EnterLoop_NoRewrite(m, i, calls) ==
    IF i < MaxIterations(config)
    THEN /\ messages' = m
         /\ iterationCount' = i + 1
         /\ llmCallIteration' = llmCallIteration + 1
         /\ request' = CallParams(config, tools, m, i + 1)
         /\ runCalls' = calls + 1
         /\ pc' = "awaitModel"
         /\ result' = NoResult
    ELSE /\ messages' = m
         /\ iterationCount' = i
         /\ runCalls' = calls
         /\ pc' = "returned"
         /\ result' = Failure(ErrMaxIterations)
         /\ UNCHANGED <<llmCallIteration, request>>

\* The head of the while loop (lines 358-435) entered with the store m after
\* i iterations: the next model call is issued, or the loop is left (635-643).
\* Mutant: the loop head does not count the iteration.
EnterLoop_NoCount(m, i, calls) ==
    IF i < MaxIterations(config)
    THEN LET stored == [m EXCEPT ![1] = SystemMessage(BuildSystemPrompt(config, i + 1))]
         IN  /\ messages' = stored
             /\ iterationCount' = i
             /\ llmCallIteration' = llmCallIteration + 1
             /\ request' = CallParams(config, tools, stored, i + 1)
             /\ runCalls' = calls + 1
             /\ pc' = "awaitModel"
             /\ result' = NoResult
    ELSE /\ messages' = m
         /\ iterationCount' = i
         /\ runCalls' = calls
         /\ pc' = "returned"
         /\ result' = Failure(ErrMaxIterations)
         /\ UNCHANGED <<llmCallIteration, request>>

EnterLoop(m, i, calls) ==
    IF i < MaxIterations(config) /\ PromptThrows(config)
    THEN /\ messages' = m
         /\ iterationCount' = i + 1
         /\ llmCallIteration' = llmCallIteration + 1
         /\ runCalls' = calls
         /\ pc' = "rejected"
         /\ result' = NoResult
         /\ UNCHANGED request
    ELSE IF i < MaxIterations(config)
    THEN LET stored == [m EXCEPT ![1] = SystemMessage(BuildSystemPrompt(config, i + 1))]
         IN  /\ messages' = stored
             /\ iterationCount' = i + 1
             /\ llmCallIteration' = llmCallIteration + 1
             /\ request' = CallParams(config, tools, stored, i + 1)
             /\ runCalls' = calls + 1
             /\ pc' = "awaitModel"
             /\ result' = NoResult
    ELSE /\ messages' = m
         /\ iterationCount' = i
         /\ runCalls' = calls
         /\ pc' = "returned"
         /\ result' = Failure(ErrMaxIterations)
         /\ UNCHANGED <<llmCallIteration, request>>

\* return <r> from run(), the store being m
Return(m, r) ==
    /\ messages' = m
    /\ pc' = "returned"
    /\ result' = r
    /\ UNCHANGED <<iterationCount, llmCallIteration, request, runCalls>>

\* Mutant: only an absent userInput is skipped (userInput !== undefined).
Run_AppendsEmptyInput(userInput) ==
    /\ agent = "ready"
    /\ pc \in {"idle", "returned", "rejected"}
    /\ runs < RunCap(scenario)
    /\ runs' = runs + 1
    /\ response' = NoResponse
    /\ functionCalls' = <<>>
    /\ results' = <<>>
    /\ executed' = <<>>
    /\ EnterLoop(IF userInput # NoInput THEN Append(messages, UserMessage(userInput))
                 ELSE messages, 0, 0)
    /\ UNCHANGED <<scenario, apiKey, config, agent, ctorError, tools>>

\* agent.run(userInput), up to its first await
Run(userInput) ==
    /\ agent = "ready"
    /\ pc \in {"idle", "returned", "rejected"}
    /\ runs < RunCap(scenario)
    /\ runs' = runs + 1
    /\ response' = NoResponse
    /\ functionCalls' = <<>>
    /\ results' = <<>>
    /\ executed' = <<>>
    /\ EnterLoop(IF Truthy(userInput) THEN Append(messages, UserMessage(userInput))
                 ELSE messages, 0, 0)
    /\ UNCHANGED <<scenario, apiKey, config, agent, ctorError, tools>>

\* Mutant: a failed model call is retried instead of ending the run.
ModelFails_Retry(resp) ==
    /\ pc = "awaitModel"
    /\ llmCallIteration <= Budget(scenario)
    /\ response' = resp
    /\ EnterLoop(messages, iterationCount, runCalls)
    /\ functionCalls' = <<>>
    /\ results' = <<>>
    /\ UNCHANGED <<scenario, apiKey, config, agent, ctorError, tools, runs, executed>>

\* The model call raised, or its response has no choice or no message (451-478).
ModelFails(resp) ==
    /\ pc = "awaitModel"
    /\ llmCallIteration <= Budget(scenario)
    /\ response' = resp
    /\ Return(messages,
              Failure(CASE resp.kind = "raise"     -> LlmErrorMessage(resp.message)
                        [] resp.kind = "nochoices" -> ErrNoResponse
                        [] OTHER                   -> ErrNoMessage))
    /\ functionCalls' = <<>>
    /\ results' = <<>>
    /\ UNCHANGED <<scenario, apiKey, config, agent, ctorError, tools, runs, executed>>

\* The model call returned a message (480-559): up to the return or the next await.
\* Mutant: the assistant message is appended only when no tool is requested.
ModelResponds_SilentOnCalls(resp) ==
    /\ pc = "awaitModel"
    /\ llmCallIteration <= Budget(scenario)
    /\ response' = resp
    /\ LET content == ContentOf(resp)
           calls == FunctionCallsOf(resp.tool_calls)
           m == IF calls = <<>> THEN Append(messages, AssistantMessage(content))
                ELSE messages
       IN  /\ functionCalls' = calls
           /\ IF calls = <<>>
              THEN /\ IF ~config.chainRun
                      THEN Return(m, Success(FinalOutput(config, content), <<>>))
                      ELSE IF iterationCount = MaxIterations(config)
                           THEN Return(m, Success(<<"str", Trim(content)>>, <<>>))
                           ELSE EnterLoop(m, iterationCount, runCalls)
                   /\ results' = <<>>
                   /\ UNCHANGED executed
              ELSE IF ~AutoExec(config)
              THEN /\ Return(m, Success(PendingOutput(config, content), calls))
                   /\ results' = <<>>
                   /\ UNCHANGED executed
              ELSE /\ messages' = m
                   /\ results' = Dispatch(tools, calls)
                   /\ executed' = executed \o Invoked(tools, calls)
                   /\ pc' = "awaitTools"
                   /\ UNCHANGED <<iterationCount, llmCallIteration, request, runCalls,
                                  result>>
    /\ UNCHANGED <<scenario, apiKey, config, agent, ctorError, tools, runs>>

\* Mutant: a chain run treats a response without tool calls as final on every iteration.
ModelResponds_ChainFinalizes(resp) ==
    /\ pc = "awaitModel"
    /\ llmCallIteration <= Budget(scenario)
    /\ response' = resp
    /\ LET content == ContentOf(resp)
           m == Append(messages, AssistantMessage(content))
           calls == FunctionCallsOf(resp.tool_calls)
       IN  /\ functionCalls' = calls
           /\ IF calls = <<>>
              THEN /\ IF ~config.chainRun
                      THEN Return(m, Success(FinalOutput(config, content), <<>>))
                      ELSE IF iterationCount <= MaxIterations(config)
                           THEN Return(m, Success(<<"str", Trim(content)>>, <<>>))
                           ELSE EnterLoop(m, iterationCount, runCalls)
                   /\ results' = <<>>
                   /\ UNCHANGED executed
              ELSE IF ~AutoExec(config)
              THEN /\ Return(m, Success(PendingOutput(config, content), calls))
                   /\ results' = <<>>
                   /\ UNCHANGED executed
              ELSE /\ messages' = m
                   /\ results' = Dispatch(tools, calls)
                   /\ executed' = executed \o Invoked(tools, calls)
                   /\ pc' = "awaitTools"
                   /\ UNCHANGED <<iterationCount, llmCallIteration, request, runCalls,
                                  result>>
    /\ UNCHANGED <<scenario, apiKey, config, agent, ctorError, tools, runs>>

ModelResponds(resp) ==
    /\ pc = "awaitModel"
    /\ llmCallIteration <= Budget(scenario)
    /\ response' = resp
    /\ LET content == ContentOf(resp)
           m == Append(messages, AssistantMessage(content))
           calls == FunctionCallsOf(resp.tool_calls)
       IN  /\ functionCalls' = calls
           /\ IF calls = <<>>
              THEN /\ IF ~config.chainRun
                      THEN Return(m, Success(FinalOutput(config, content), <<>>))
                      ELSE IF iterationCount = MaxIterations(config)
                           THEN Return(m, Success(<<"str", Trim(content)>>, <<>>))
                           ELSE EnterLoop(m, iterationCount, runCalls)
                   /\ results' = <<>>
                   /\ UNCHANGED executed
              ELSE IF ~AutoExec(config)
              THEN /\ Return(m, Success(PendingOutput(config, content), calls))
                   /\ results' = <<>>
                   /\ UNCHANGED executed
              ELSE /\ messages' = m
                   /\ results' = Dispatch(tools, calls)
                   /\ executed' = executed \o Invoked(tools, calls)
                   /\ pc' = "awaitTools"
                   /\ UNCHANGED <<iterationCount, llmCallIteration, request, runCalls,
                                  result>>
    /\ UNCHANGED <<scenario, apiKey, config, agent, ctorError, tools, runs>>

\* Mutant: a call whose execute raised is invoked a second time.
ToolSettles_RetryOnRaise(i, outcome) ==
    /\ pc = "awaitTools"
    /\ i \in 1..Len(results)
    /\ results[i] = Pending
    /\ outcome \in ExecuteOutcomes(tools[FindTool(tools, functionCalls[i][1])],
                                   functionCalls[i][2])
    /\ results' = [results EXCEPT ![i] = CallbackValue(functionCalls[i], outcome)]
    /\ executed' = IF outcome[1] = "raise" THEN Append(executed, functionCalls[i])
                   ELSE executed
    /\ UNCHANGED <<scenario, apiKey, config, agent, ctorError, tools, messages,
                   llmCallIteration, runs, pc, iterationCount, request, response,
                   functionCalls, result, runCalls>>

\* The execute() of call i settled: its callback returns (557-584).
ToolSettles(i, outcome) ==
    /\ pc = "awaitTools"
    /\ i \in 1..Len(results)
    /\ results[i] = Pending
    /\ outcome \in ExecuteOutcomes(tools[FindTool(tools, functionCalls[i][1])],
                                   functionCalls[i][2])
    /\ results' = [results EXCEPT ![i] = CallbackValue(functionCalls[i], outcome)]
    /\ UNCHANGED <<scenario, apiKey, config, agent, ctorError, tools, messages,
                   llmCallIteration, runs, pc, iterationCount, request, response,
                   functionCalls, result, runCalls, executed>>

\* Mutant: run() goes on as soon as one callback of the batch has returned.
AfterTools_FirstSettled ==
    /\ pc = "awaitTools"
    /\ \E i \in 1..Len(results) : results[i] # Pending
    /\ LET f == FinishRunCall(results)
       IN  IF f # 0
           THEN Return(Append(messages, FinishRunMessage(results[f][2])),
                       Success(<<"str", results[f][2]>>, <<>>))
           ELSE EnterLoop(messages \o ResultMessages(results), iterationCount, runCalls)
    /\ UNCHANGED <<scenario, apiKey, config, agent, ctorError, tools, runs, response,
                   functionCalls, results, executed>>

\* Promise.all resolved (588-633): finish_run finalizes, else the results are appended.
\* Mutant: a tool that raised makes the run fail with the tool's error.
AfterTools_RaiseFails ==
    /\ pc = "awaitTools"
    /\ \A i \in 1..Len(results) : results[i] # Pending
    /\ LET f == FinishRunCall(results)
       IN  IF \E i \in 1..Len(results) : results[i][1] = "str" /\ results[i][2][1] = "error"
           THEN Return(messages, Failure("Error in tool"))
           ELSE IF f # 0
           THEN Return(Append(messages, FinishRunMessage(results[f][2])),
                       Success(<<"str", results[f][2]>>, <<>>))
           ELSE EnterLoop(messages \o ResultMessages(results), iterationCount, runCalls)
    /\ UNCHANGED <<scenario, apiKey, config, agent, ctorError, tools, runs, response,
                   functionCalls, results, executed>>

\* Mutant: a batch handled on the last iteration ends the run with the
\* response's content as its output.
AfterTools_SuccessAtBound ==
    /\ pc = "awaitTools"
    /\ \A i \in 1..Len(results) : results[i] # Pending
    /\ LET f == FinishRunCall(results)
       IN  IF f # 0
           THEN Return(Append(messages, FinishRunMessage(results[f][2])),
                       Success(<<"str", results[f][2]>>, <<>>))
           ELSE IF iterationCount < MaxIterations(config)
           THEN EnterLoop(messages \o ResultMessages(results), iterationCount, runCalls)
           ELSE Return(messages \o ResultMessages(results),
                       Success(<<"str", Trim(ContentOf(response))>>, <<>>))
    /\ UNCHANGED <<scenario, apiKey, config, agent, ctorError, tools, runs, response,
                   functionCalls, results, executed>>

\* Mutant: a successful finish_run appends the other results before its block.
AfterTools_FinishAppendsAll ==
    /\ pc = "awaitTools"
    /\ \A i \in 1..Len(results) : results[i] # Pending
    /\ LET f == FinishRunCall(results)
       IN  IF f # 0
           THEN Return(Append(messages \o ResultMessages(results),
                              FinishRunMessage(results[f][2])),
                       Success(<<"str", results[f][2]>>, <<>>))
           ELSE EnterLoop(messages \o ResultMessages(results), iterationCount, runCalls)
    /\ UNCHANGED <<scenario, apiKey, config, agent, ctorError, tools, runs, response,
                   functionCalls, results, executed>>

AfterTools ==
    /\ pc = "awaitTools"
    /\ \A i \in 1..Len(results) : results[i] # Pending
    /\ LET f == FinishRunCall(results)
       IN  IF f # 0
           THEN Return(Append(messages, FinishRunMessage(results[f][2])),
                       Success(<<"str", results[f][2]>>, <<>>))
           ELSE EnterLoop(messages \o ResultMessages(results), iterationCount, runCalls)
    /\ UNCHANGED <<scenario, apiKey, config, agent, ctorError, tools, runs, response,
                   functionCalls, results, executed>>

(***************************************************************************)
(* run() as a function of an activation.  It is what a second invocation   *)
(* on the same agent, and a second agent, execute.                         *)
(***************************************************************************)
\* Lines 358-435, or 635-643 when the loop is left.
EnterLoopOf(a, cfg, arr, m, i, calls) ==
    IF i < MaxIterations(cfg) /\ PromptThrows(cfg)
    THEN [a EXCEPT !.messages = m,
                   !.iterationCount = i + 1,
                   !.llmCallIteration = @ + 1,
                   !.runCalls = calls,
                   !.pc = "rejected",
                   !.result = NoResult]
    ELSE IF i < MaxIterations(cfg)
    THEN LET stored == [m EXCEPT ![1] = SystemMessage(BuildSystemPrompt(cfg, i + 1))]
         IN  [a EXCEPT !.messages = stored,
                       !.iterationCount = i + 1,
                       !.llmCallIteration = @ + 1,
                       !.request = CallParams(cfg, arr, stored, i + 1),
                       !.runCalls = calls + 1,
                       !.pc = "awaitModel",
                       !.result = NoResult]
    ELSE [a EXCEPT !.messages = m,
                   !.iterationCount = i,
                   !.runCalls = calls,
                   !.pc = "returned",
                   !.result = Failure(ErrMaxIterations)]

ReturnOf(a, m, r) == [a EXCEPT !.messages = m, !.pc = "returned", !.result = r]

\* Lines 340-435: run(userInput) up to its first await.
RunOf(a, cfg, arr, userInput) ==
    EnterLoopOf([a EXCEPT !.response = NoResponse, !.functionCalls = <<>>,
                          !.results = <<>>, !.executed = <<>>],
                cfg, arr,
                IF Truthy(userInput) THEN Append(a.messages, UserMessage(userInput))
                ELSE a.messages,
                0, 0)

\* Lines 451-478.
ModelFailsOf(a, resp) ==
    ReturnOf([a EXCEPT !.response = resp, !.functionCalls = <<>>, !.results = <<>>],
             a.messages,
             Failure(CASE resp.kind = "raise"     -> LlmErrorMessage(resp.message)
                       [] resp.kind = "nochoices" -> ErrNoResponse
                       [] OTHER                   -> ErrNoMessage))

\* Lines 480-558.
ModelRespondsOf(a, cfg, arr, resp) ==
    LET content == ContentOf(resp)
        m == Append(a.messages, AssistantMessage(content))
        calls == FunctionCallsOf(resp.tool_calls)
        b == [a EXCEPT !.response = resp, !.functionCalls = calls, !.results = <<>>]
    IN  IF calls = <<>>
        THEN IF ~cfg.chainRun
             THEN ReturnOf(b, m, Success(FinalOutput(cfg, content), <<>>))
             ELSE IF a.iterationCount = MaxIterations(cfg)
                  THEN ReturnOf(b, m, Success(<<"str", Trim(content)>>, <<>>))
                  ELSE EnterLoopOf(b, cfg, arr, m, a.iterationCount, a.runCalls)
        ELSE IF ~AutoExec(cfg)
        THEN ReturnOf(b, m, Success(PendingOutput(cfg, content), calls))
        ELSE [b EXCEPT !.messages = m,
                       !.results = Dispatch(arr, calls),
                       !.executed = @ \o Invoked(arr, calls),
                       !.pc = "awaitTools"]

\* Lines 557-584.
ToolSettlesOf(a, i, outcome) ==
    [a EXCEPT !.results[i] = CallbackValue(a.functionCalls[i], outcome)]

\* Lines 588-643.
AfterToolsOf(a, cfg, arr) ==
    LET f == FinishRunCall(a.results)
    IN  IF f # 0
        THEN ReturnOf(a, Append(a.messages, FinishRunMessage(a.results[f][2])),
                      Success(<<"str", a.results[f][2]>>, <<>>))
        ELSE EnterLoopOf(a, cfg, arr, a.messages \o ResultMessages(a.results),
                         a.iterationCount, a.runCalls)

(***************************************************************************)
(* The debug server's POST /agent/:id/message handler (debugGuiServer.ts   *)
(* 130-164): addUserMessage(message), then run(), on the registered agent, *)
(* whatever that agent is doing.  Its activation shares the agent's store, *)
(* call counter and tools.                                                 *)
(***************************************************************************)
\* this.agentRegistered
AgentRegistered == agent = "ready" /\ config.debug

GuiActivation == [gui EXCEPT !.messages = messages, !.llmCallIteration = llmCallIteration]

GuiCommit(a) ==
    /\ gui' = [a EXCEPT !.messages = <<>>, !.llmCallIteration = 0]
    /\ messages' = a.messages
    /\ llmCallIteration' = a.llmCallIteration
    /\ UNCHANGED <<scenario, apiKey, config, agent, ctorError, tools, runs, pc,
                   iterationCount, request, response, functionCalls, results, result,
                   runCalls, executed, twin, held, bus, server>>

PostMessage(message) ==
    /\ AgentRegistered
    /\ gui.pc = "idle"
    /\ message # Empty
    /\ GuiCommit(RunOf(GuiActivation, config, tools, message))

GuiModelFails(resp) ==
    /\ gui.pc = "awaitModel"
    /\ llmCallIteration <= Budget(scenario)
    /\ GuiCommit(ModelFailsOf(GuiActivation, resp))

GuiModelResponds(resp) ==
    /\ gui.pc = "awaitModel"
    /\ llmCallIteration <= Budget(scenario)
    /\ GuiCommit(ModelRespondsOf(GuiActivation, config, tools, resp))

GuiToolSettles(i, outcome) ==
    /\ gui.pc = "awaitTools"
    /\ i \in 1..Len(gui.results)
    /\ gui.results[i] = Pending
    /\ outcome \in ExecuteOutcomes(tools[FindTool(tools, gui.functionCalls[i][1])],
                                   gui.functionCalls[i][2])
    /\ GuiCommit(ToolSettlesOf(GuiActivation, i, outcome))

GuiAfterTools ==
    /\ gui.pc = "awaitTools"
    /\ \A i \in 1..Len(gui.results) : gui.results[i] # Pending
    /\ GuiCommit(AfterToolsOf(GuiActivation, config, tools))

(***************************************************************************)
(* The second agent: the same configuration with debug off, a tools array  *)
(* of its own with the same tools, the same environment.                   *)
(***************************************************************************)
TwinConfig == [config EXCEPT !.debug = FALSE]

TwinConstructed ==
    LET invalid == ConstructorError(TwinConfig, tools, apiKey)
        err == IF invalid # Undefined THEN invalid ELSE RegisterError(TwinConfig)
    IN  [ agent     |-> IF err = Undefined THEN "ready" ELSE "threw",
          ctorError |-> err,
          tools     |-> ToolsAfterConstructor(TwinConfig, tools, apiKey),
          run       |-> [NoActivation EXCEPT
                            !.messages = IF err = Undefined THEN <<SystemMessage(<<>>)>>
                                         ELSE <<>>] ]

Outcomes(scn) ==
    UNION { UserOutcomes(t) : t \in {"calc", "user_finish"} }
    \cup { FinishRunExecute(a[2]) : a \in ToolCalls(scn) }

\* The program without the debug server: no handler of it runs.
Next ==
    \/ Construct /\ UNCHANGED <<gui, twin, held, bus, server>>
    \/ ConstructSibling /\ UNCHANGED <<gui, twin, held, bus, server>>
    \/ \E userInput \in UserInputs(scenario) : Run(userInput) /\ UNCHANGED <<gui, twin, held, bus, server>>
    \/ \E resp \in FailedResponses : ModelFails(resp) /\ UNCHANGED <<gui, twin, held, bus, server>>
    \/ \E resp \in MessageResponses(scenario) : ModelResponds(resp) /\ UNCHANGED <<gui, twin, held, bus, server>>
    \/ \E i \in 1..MaxBatch, outcome \in Outcomes(scenario) :
          ToolSettles(i, outcome) /\ UNCHANGED <<gui, twin, held, bus, server>>
    \/ AfterTools /\ UNCHANGED <<gui, twin, held, bus, server>>

\* The program with the debug server receiving POSTs.
NextGui ==
    \/ Construct /\ UNCHANGED <<gui, twin, held, bus, server>>
    \/ \E userInput \in UserInputs(scenario) : Run(userInput) /\ UNCHANGED <<gui, twin, held, bus, server>>
    \/ \E resp \in FailedResponses : ModelFails(resp) /\ UNCHANGED <<gui, twin, held, bus, server>>
    \/ \E resp \in MessageResponses(scenario) : ModelResponds(resp) /\ UNCHANGED <<gui, twin, held, bus, server>>
    \/ \E i \in 1..MaxBatch, outcome \in Outcomes(scenario) :
          ToolSettles(i, outcome) /\ UNCHANGED <<gui, twin, held, bus, server>>
    \/ AfterTools /\ UNCHANGED <<gui, twin, held, bus, server>>
    \/ \E message \in UserInputs(scenario) : PostMessage(message)
    \/ \E resp \in FailedResponses : GuiModelFails(resp)
    \/ \E resp \in MessageResponses(scenario) : GuiModelResponds(resp)
    \/ \E i \in 1..MaxBatch, outcome \in Outcomes(scenario) : GuiToolSettles(i, outcome)
    \/ GuiAfterTools

\* The debug agent and the second agent side by side, given the same inputs.
NextDebug ==
    \/ Construct /\ twin' = TwinConstructed /\ UNCHANGED <<gui, held, bus, server>>
    \/ \E userInput \in UserInputs(scenario) :
          /\ Run(userInput)
          /\ twin' = [twin EXCEPT !.run = RunOf(@, TwinConfig, twin.tools, userInput)]
          /\ UNCHANGED <<gui, held, bus, server>>
    \/ \E resp \in FailedResponses :
          /\ ModelFails(resp)
          /\ twin' = [twin EXCEPT !.run = ModelFailsOf(@, resp)]
          /\ UNCHANGED <<gui, held, bus, server>>
    \/ \E resp \in MessageResponses(scenario) :
          /\ ModelResponds(resp)
          /\ twin' = [twin EXCEPT !.run = ModelRespondsOf(@, TwinConfig, twin.tools, resp)]
          /\ UNCHANGED <<gui, held, bus, server>>
    \/ \E i \in 1..MaxBatch, outcome \in Outcomes(scenario) :
          /\ ToolSettles(i, outcome)
          /\ twin' = [twin EXCEPT !.run = ToolSettlesOf(@, i, outcome)]
          /\ UNCHANGED <<gui, held, bus, server>>
    \/ /\ AfterTools
       /\ twin' = [twin EXCEPT !.run = AfterToolsOf(@, TwinConfig, twin.tools)]
       /\ UNCHANGED <<gui, held, bus, server>>

Spec == Init /\ [][Next]_vars

SpecWide == InitWide /\ [][Next]_vars

SpecModes == InitModes /\ [][Next]_vars

SpecGui == InitGui /\ [][NextGui]_vars

InitLive == InitOf("live")

InitVars == InitOf("vars")

\* Lines 270-302: addUserMessage called by the caller, at any moment of the
\* agent's life, a run() in progress or not.
UserMessageWith(text, images) ==
    IF images = <<>> THEN UserMessage(text) ELSE Msg("user", <<"parts", text, images>>)

\* Mutant: a message added while a run() is suspended is put ahead of the last
\* message of the store.
AddUserMessage_Inserted(content, images) ==
    /\ agent = "ready"
    /\ Len(messages) < MaxStoreLen
    /\ messages' = IF pc \in {"awaitModel", "awaitTools"}
                   THEN Append(SubSeq(messages, 1, Len(messages) - 1),
                               UserMessageWith(content, images))
                            \o <<messages[Len(messages)]>>
                   ELSE Append(messages, UserMessageWith(content, images))
    /\ UNCHANGED <<scenario, apiKey, config, agent, ctorError, tools, llmCallIteration,
                   runs, pc, iterationCount, request, response, functionCalls, results,
                   result, runCalls, executed, gui, twin, held, bus, server>>

AddUserMessage(content, images) ==
    /\ agent = "ready"
    /\ Len(messages) < MaxStoreLen
    /\ messages' = Append(messages, UserMessageWith(content, images))
    /\ UNCHANGED <<scenario, apiKey, config, agent, ctorError, tools, llmCallIteration,
                   runs, pc, iterationCount, request, response, functionCalls, results,
                   result, runCalls, executed, gui, twin, held, bus, server>>

\* Mutant: the assistant message overwrites the last message of the store.
AddAssistantMessage_Overwrite(content) ==
    /\ agent = "ready"
    /\ Len(messages) < MaxStoreLen
    /\ messages' = [messages EXCEPT ![Len(messages)] = AssistantMessage(content)]
    /\ UNCHANGED <<scenario, apiKey, config, agent, ctorError, tools, llmCallIteration,
                   runs, pc, iterationCount, request, response, functionCalls, results,
                   result, runCalls, executed, gui, twin, held, bus, server>>

\* Lines 309-316: addAssistantMessage called by the caller.
AddAssistantMessage(content) ==
    /\ agent = "ready"
    /\ Len(messages) < MaxStoreLen
    /\ messages' = Append(messages, AssistantMessage(content))
    /\ UNCHANGED <<scenario, apiKey, config, agent, ctorError, tools, llmCallIteration,
                   runs, pc, iterationCount, request, response, functionCalls, results,
                   result, runCalls, executed, gui, twin, held, bus, server>>

\* The agent with its two caller-facing append operations.
NextStore ==
    \/ Next
    \/ \E content \in {<<"u">>}, images \in {<<>>, <<"img">>} : AddUserMessage(content, images)
    \/ \E content \in {<<"s">>} : AddAssistantMessage(content)

InitStore == InitOf("store")

\* A debug agent used by its caller and by the debug server at once: run(),
\* the caller's append operations and the POST handler's run().
NextOverlap ==
    \/ NextGui
    \/ \E content \in {<<"u">>}, images \in {<<>>} : AddUserMessage(content, images)
    \/ \E content \in {<<"s">>} : AddAssistantMessage(content)

InitOverlap == InitOf("overlap")

SpecOverlap == InitOverlap /\ [][NextOverlap]_vars

SpecStore == InitStore /\ [][NextStore]_vars

SpecVars == InitVars /\ [][Next]_vars

\* Batches of up to MaxBatch calls over InvokeBudget answered model calls.
InitInvoke == InitOf("invoke")

SpecInvoke == InitInvoke /\ [][Next]_vars

(***************************************************************************)
(* getMessages() and what the caller does with the array it returns.  An   *)
(* array is "store" (the agent's own messages array) or "copy" (an array   *)
(* of its own); its elements are the message objects themselves, named by  *)
(* the position they have in the store, 0 for an object of the caller's.   *)
(***************************************************************************)
\* The elements of the array the caller holds.
HeldElems ==
    IF held.array = "store" THEN [i \in 1..Len(messages) |-> i] ELSE held.elems

\* Mutant: return this.messages.
GetMessages_Live ==
    /\ agent = "ready"
    /\ held' = [ array |-> "store", elems |-> <<>> ]
    /\ UNCHANGED <<scenario, apiKey, config, agent, ctorError, tools, messages,
                   llmCallIteration, runs, pc, iterationCount, request, response,
                   functionCalls, results, result, runCalls, executed, gui, twin,
                   bus, server>>

\* getMessages(): return [...this.messages]
GetMessages ==
    /\ agent = "ready"
    /\ held' = [ array |-> "copy", elems |-> [i \in 1..Len(messages) |-> i] ]
    /\ UNCHANGED <<scenario, apiKey, config, agent, ctorError, tools, messages,
                   llmCallIteration, runs, pc, iterationCount, request, response,
                   functionCalls, results, result, runCalls, executed, gui, twin,
                   bus, server>>

\* The caller changes the array it holds: an array method acts on the array
\* object the reference names, the store itself if that is what was returned.
HeldChange(elems, stored) ==
    /\ held.array # "none"
    /\ IF held.array = "store"
       THEN messages' = stored /\ UNCHANGED held
       ELSE held' = [held EXCEPT !.elems = elems] /\ UNCHANGED messages
    /\ UNCHANGED <<scenario, apiKey, config, agent, ctorError, tools,
                   llmCallIteration, runs, pc, iterationCount, request, response,
                   functionCalls, results, result, runCalls, executed, gui, twin,
                   bus, server>>

Reversed(seq) == [i \in 1..Len(seq) |-> seq[Len(seq) + 1 - i]]

\* returned.push(own)
HeldPush ==
    /\ Len(HeldElems) < MaxHeldLen
    /\ HeldChange(Append(held.elems, 0), Append(messages, UserMessage(<<"own">>)))

\* returned.pop()
HeldPop ==
    /\ HeldElems # <<>>
    /\ HeldChange(SubSeq(held.elems, 1, Len(held.elems) - 1),
                  SubSeq(messages, 1, Len(messages) - 1))

\* returned.reverse()
HeldReverse ==
    /\ Len(HeldElems) >= 2
    /\ HeldChange(Reversed(held.elems), Reversed(messages))

\* The agent and a caller that takes the history with getMessages() and
\* changes the array it got.
NextCopy ==
    \/ Next
    \/ GetMessages
    \/ HeldPush
    \/ HeldPop
    \/ HeldReverse

InitCopy == InitOf("copy")

SpecCopy == InitCopy /\ [][NextCopy]_vars

(***************************************************************************)
(* agentEventBus.  The sink is whatever listens to the events it emits.    *)
(***************************************************************************)
\* decodeURIComponent(agentId), for the ids for which it returns
Decoded(agentId) == IF agentId = "a%20b" THEN "a b" ELSE agentId

BusEvent(type, payload) == [ type |-> type, payload |-> payload ]

Emit(b, type, payload) == [b EXCEPT !.events = Append(@, BusEvent(type, payload))]

\* registerAgent (47-73): the entry is stored under the decoded id; the
\* llmRequests of an entry already there are kept.
RegisterAgent(b, agentId) ==
    LET cleanId == Decoded(agentId)
    IN  Emit([b EXCEPT !.agents = @ \cup {cleanId}], "newAgentSession", cleanId)

\* r.responseData of a record that has none
NoResponseData == 0

\* llmRequests.find(r => r.iteration === iteration): the index, 0 when none
RECURSIVE FindRecordFrom(_, _, _)
FindRecordFrom(records, iteration, k) ==
    IF k > Len(records) THEN 0
    ELSE IF records[k].iteration = iteration THEN k
    ELSE FindRecordFrom(records, iteration, k + 1)

\* Mutant: the response is stored in the newest record of that iteration.
StoreLlmResponse_Newest(b, iteration, responseData) ==
    LET hits == { k \in 1..Len(b.llmRequests) : b.llmRequests[k].iteration = iteration }
    IN  IF hits = {} THEN b
        ELSE LET k == CHOOSE k \in hits : \A j \in hits : j <= k
                 stored == [b EXCEPT !.llmRequests[k].responseData = responseData]
             IN  Emit(stored, "llmRequestsUpdated", stored.llmRequests)

\* storeLlmResponse (169-181), the agent's entry found
StoreLlmResponse(b, iteration, responseData) ==
    LET k == FindRecordFrom(b.llmRequests, iteration, 1)
    IN  IF k = 0 THEN b
        ELSE LET stored == [b EXCEPT !.llmRequests[k].responseData = responseData]
             IN  Emit(stored, "llmRequestsUpdated", stored.llmRequests)

\* storeLlmRequest (150-163), the agent's entry found.  A record carries the
\* number of the model call its requestData is sent with.
StoreLlmRequest(b, iteration) ==
    LET stored == [b EXCEPT !.llmRequests =
                       Append(@, [ iteration |-> iteration, call |-> b.issued,
                                   responseData |-> NoResponseData ])]
    IN  Emit(stored, "llmRequestsUpdated", stored.llmRequests)

BusCall(op, arg) == [ op |-> op, arg |-> arg ]

\* logEntry (660-667): every log line is followed by updateAgentLog
LogEntry == BusCall("updateAgentLog", <<>>)

\* One call of the agent on the bus, under the id the agent passes
\* (getAgentId() returns this.agentId as configured): every method looks the
\* entry up with this.agents.get(agentId) and does nothing when there is none.
BusApply(b, agentId, c) ==
    LET counted == IF c.op = "storeLlmRequest" THEN [b EXCEPT !.issued = @ + 1] ELSE b
    IN  IF agentId \notin b.agents THEN counted
        ELSE CASE c.op = "updateSystemPrompt" -> Emit(b, "systemPromptUpdated", c.arg)
               [] c.op = "updateChatHistory"  -> Emit(b, "chatHistoryUpdated", c.arg)
               [] c.op = "updateAgentError"   -> Emit(b, "agentError", c.arg)
               [] c.op = "updateAgentLog"     -> Emit(b, "agentLogsUpdated", c.arg)
               [] c.op = "storeLlmRequest"    -> StoreLlmRequest(counted, c.arg)
               [] OTHER                       -> StoreLlmResponse(b, c.arg, b.issued)

RECURSIVE BusApplyFrom(_, _, _, _)
BusApplyFrom(b, agentId, calls, k) ==
    IF k > Len(calls) THEN b
    ELSE BusApplyFrom(BusApply(b, agentId, calls[k]), agentId, calls, k + 1)

\* The bus after the calls a step of the agent makes, in order: none when
\* agentRegistered is false.
BusAfter(calls) ==
    IF AgentRegistered THEN BusApplyFrom(bus, config.agentId, calls, 1) ELSE bus

\* The head of an iteration (358-431) or the exit of the loop (635-643), told
\* by where the step leaves run().
LoopHeadCalls ==
    CASE pc' = "awaitModel" ->
             << LogEntry, BusCall("updateSystemPrompt", Content(messages'[1])),
                LogEntry, BusCall("storeLlmRequest", llmCallIteration') >>
      [] pc' = "rejected" -> << LogEntry >>
      [] OTHER -> << LogEntry, BusCall("updateAgentError", ErrMaxIterations),
                     BusCall("updateAgentLog", <<>>) >>

\* run(userInput) up to its first await
RunBusCalls(userInput) ==
    (IF Truthy(userInput)
     THEN << LogEntry,
             BusCall("updateChatHistory", Append(messages, UserMessage(userInput))) >>
     ELSE <<>>) \o LoopHeadCalls

\* 451-478
ModelFailsBusCalls(resp) ==
    IF resp.kind = "raise"
    THEN << LogEntry, BusCall("updateAgentError", LlmErrorMessage(resp.message)) >>
    ELSE << LogEntry, BusCall("storeLlmResponse", llmCallIteration), LogEntry,
            BusCall("updateAgentError",
                    IF resp.kind = "nochoices" THEN ErrNoResponse ELSE ErrNoMessage) >>

\* 444-450 and 480-547, and the synchronous part of the callbacks (549-556)
ModelRespondsBusCalls(resp) ==
    LET calls == FunctionCallsOf(resp.tool_calls)
    IN  << LogEntry, BusCall("storeLlmResponse", llmCallIteration), LogEntry, LogEntry,
           BusCall("updateChatHistory",
                   Append(messages, AssistantMessage(ContentOf(resp)))) >>
        \o (IF calls = <<>>
            THEN (IF config.chainRun /\ iterationCount # MaxIterations(config)
                  THEN LoopHeadCalls ELSE << LogEntry >>)
            ELSE IF ~AutoExec(config) THEN << LogEntry >>
            ELSE << LogEntry >>
                 \o [k \in 1..(Len(calls) - Len(Invoked(tools, calls))) |-> LogEntry])

\* 557-584: the log lines of one callback
ToolSettlesBusCalls(i, outcome) ==
    IF outcome[1] = "ok" /\ functionCalls[i][1] = "finish_run"
    THEN << LogEntry, LogEntry >>
    ELSE << LogEntry >>

\* 588-633
AfterToolsBusCalls ==
    IF FinishRunCall(results) # 0
    THEN << BusCall("updateChatHistory", messages'), LogEntry, LogEntry >>
    ELSE [k \in 1..Len(ResultMessages(results)) |-> LogEntry]
         \o << BusCall("updateChatHistory", messages \o ResultMessages(results)) >>
         \o LoopHeadCalls

\* The agents registered so far under the agent's id.
Instances ==
    Cardinality({ k \in 1..Len(bus.events) : bus.events[k].type = "newAgentSession" })

(***************************************************************************)
(* debugGuiServer.startServer() and the callbacks of its port probe.  A    *)
(* probe is the offset from this.port of the port its test server tries.   *)
(***************************************************************************)
\* startServer() as the earlier version of the file has it: the flag is set,
\* then this.server.listen(this.port, ...) is called, without a probe.
StartServerDirect(srv) ==
    IF srv.started THEN [srv EXCEPT !.calls = @ + 1]
    ELSE [srv EXCEPT !.started = TRUE, !.listens = @ + 1, !.calls = @ + 1]

\* startServer(): return when started, else tryPort(this.port), whose test
\* server begins to listen.
StartServer(srv) ==
    IF srv.started THEN [srv EXCEPT !.calls = @ + 1]
    ELSE [srv EXCEPT !.probes = Append(@, 0), !.calls = @ + 1]

\* The constructor reaches its debug block (178-182).
StartsServer(cfg) == cfg.debug /\ ConstructorError(cfg, tools, apiKey) = Undefined

\* new FeatherAgent(config) with the debug server
ConstructDebug ==
    /\ Construct
    /\ server' = IF StartsServer(config) THEN StartServer(server) ELSE server
    /\ bus' = IF StartsServer(config) /\ ~DecodeThrows(config.agentId)
              THEN RegisterAgent(bus, config.agentId) ELSE bus
    /\ UNCHANGED <<gui, twin, held>>

\* Another debug agent is constructed: the next startServer() call.
ConstructPeer ==
    /\ agent # "none"
    /\ apiKey
    /\ server.calls < MaxStarts
    /\ server' = StartServer(server)
    /\ bus' = RegisterAgent(bus, "b")
    /\ UNCHANGED <<scenario, apiKey, config, agent, ctorError, tools, messages,
                   llmCallIteration, runs, pc, iterationCount, request, response,
                   functionCalls, results, result, runCalls, executed, gui, twin,
                   held>>

\* The caller constructs the agent anew from the same configuration: a new
\* instance, registered under the same id, over the same tools array.
Reconstruct ==
    /\ agent = "ready"
    /\ config.debug
    /\ pc \in {"idle", "returned", "rejected"}
    /\ Instances < MaxInstances
    /\ tools' = ToolsAfterConstructor(config, tools, apiKey)
    /\ messages' = <<SystemMessage(<<>>)>>
    /\ llmCallIteration' = 0
    /\ runs' = 0
    /\ pc' = "idle"
    /\ iterationCount' = 0
    /\ request' = NoRequest
    /\ response' = NoResponse
    /\ functionCalls' = <<>>
    /\ results' = <<>>
    /\ result' = NoResult
    /\ runCalls' = 0
    /\ executed' = <<>>
    /\ server' = StartServer(server)
    /\ bus' = RegisterAgent(bus, config.agentId)
    /\ UNCHANGED <<scenario, apiKey, config, agent, ctorError, gui, twin, held>>

Without(seq, k) == SubSeq(seq, 1, k - 1) \o SubSeq(seq, k + 1, Len(seq))

\* The test server of probe k reports EADDRINUSE: tryPort(port + 1).
ProbeInUse(k) ==
    /\ k \in 1..Len(server.probes)
    /\ server.probes[k] < MaxPortOffset
    /\ server' = [server EXCEPT !.probes[k] = @ + 1]
    /\ UNCHANGED <<scenario, apiKey, config, agent, ctorError, tools, messages,
                   llmCallIteration, runs, pc, iterationCount, request, response,
                   functionCalls, results, result, runCalls, executed, gui, twin,
                   held, bus>>

\* The test server of probe k is listening: it is closed and, in the close
\* callback, this.server.listen(port, ...) is called.
ProbeListening(k) ==
    /\ k \in 1..Len(server.probes)
    /\ server' = [server EXCEPT !.probes = Without(@, k), !.listens = @ + 1]
    /\ UNCHANGED <<scenario, apiKey, config, agent, ctorError, tools, messages,
                   llmCallIteration, runs, pc, iterationCount, request, response,
                   functionCalls, results, result, runCalls, executed, gui, twin,
                   held, bus>>

\* The callback of this.server.listen runs: this.started = true.
ServerListening ==
    /\ server.listens >= 1
    /\ ~server.started
    /\ server' = [server EXCEPT !.started = TRUE]
    /\ UNCHANGED <<scenario, apiKey, config, agent, ctorError, tools, messages,
                   llmCallIteration, runs, pc, iterationCount, request, response,
                   functionCalls, results, result, runCalls, executed, gui, twin,
                   held, bus>>

\* Debug agents constructed one after another while the event loop runs the
\* callbacks of the port probes.
NextServer ==
    \/ ConstructDebug
    \/ ConstructPeer
    \/ \E k \in 1..MaxStarts : ProbeInUse(k)
    \/ \E k \in 1..MaxStarts : ProbeListening(k)
    \/ ServerListening

InitServer == InitOf("server")

\* A debug agent and the bus: every step of the agent with the calls it makes
\* on the bus.
NextSink ==
    \/ ConstructDebug
    \/ Reconstruct
    \/ \E userInput \in UserInputs(scenario) :
          /\ Run(userInput)
          /\ bus' = BusAfter(RunBusCalls(userInput))
          /\ UNCHANGED <<gui, twin, held, server>>
    \/ \E resp \in FailedResponses :
          /\ ModelFails(resp)
          /\ bus' = BusAfter(ModelFailsBusCalls(resp))
          /\ UNCHANGED <<gui, twin, held, server>>
    \/ \E resp \in MessageResponses(scenario) :
          /\ ModelResponds(resp)
          /\ bus' = BusAfter(ModelRespondsBusCalls(resp))
          /\ UNCHANGED <<gui, twin, held, server>>
    \/ \E i \in 1..MaxBatch, outcome \in Outcomes(scenario) :
          /\ ToolSettles(i, outcome)
          /\ bus' = BusAfter(ToolSettlesBusCalls(i, outcome))
          /\ UNCHANGED <<gui, twin, held, server>>
    \/ /\ AfterTools
       /\ bus' = BusAfter(AfterToolsBusCalls)
       /\ UNCHANGED <<gui, twin, held, server>>

InitSink == InitOf("sink")

SpecSink == InitSink /\ [][NextSink]_vars

SpecServer == InitServer /\ [][NextServer]_vars

\* The awaited endpoint call settles: it rejects, or resolves with a response.
ModelSettles ==
    /\ \/ \E resp \in FailedResponses : ModelFails(resp)
       \/ \E resp \in MessageResponses(scenario) : ModelResponds(resp)
    /\ UNCHANGED <<gui, twin, held, bus, server>>

\* An awaited tool.execute call settles: it returns or raises.
ToolCallSettles ==
    /\ \E i \in 1..MaxBatch, outcome \in Outcomes(scenario) : ToolSettles(i, outcome)
    /\ UNCHANGED <<gui, twin, held, bus, server>>

\* Promise.all resolves once every callback has settled, and run() resumes.
BatchResumes == AfterTools /\ UNCHANGED <<gui, twin, held, bus, server>>

\* Every model call and every tool call eventually settles, and the awaiting
\* run() is resumed; what they settle with is not constrained.
SpecLive ==
    /\ InitLive /\ [][Next]_vars
    /\ WF_vars(ModelSettles) /\ WF_vars(ToolCallSettles) /\ WF_vars(BatchResumes)

SpecDebug == InitDebug /\ [][NextDebug]_vars

(***************************************************************************)
(* Properties.                                                             *)
(***************************************************************************)
InRun == agent = "ready" /\ runs >= 1

\* Some call of the current run was an executed finish_run.
FinishRunExecuted == \E i \in 1..Len(executed) : executed[i][1] = "finish_run"

\* The effective iteration bound of a configuration, as the specification states it.
IterationBound(cfg) ==
    IF cfg.forceTool THEN 1
    ELSE IF cfg.chainRun
         THEN (IF cfg.maxChainIterations = Unset THEN 5 ELSE cfg.maxChainIterations)
         ELSE 5

\* C1: one run() invocation issues at most B model-endpoint calls, B = 1 under
\* forceTool, maxChainIterations (5 when unset) under chainRun and 5 otherwise;
\* the count is that of the current invocation: it equals run()'s own
\* iterationCount, which starts at zero in every invocation.
C1_ModelCallsBounded ==
    InRun => /\ runCalls <= IterationBound(config)
             /\ runCalls = iterationCount

\* A second run() of a plain agent that reached its fifth model call.
C1_Witness ==
    /\ InRun /\ runs = 2 /\ ~config.chainRun /\ ~config.forceTool
    /\ runCalls = 5 /\ pc = "awaitModel"

\* C2: in chain mode with auto-execution and maxChainIterations = N >= 1, a run
\* whose endpoint calls all succeeded and in which finish_run was never invoked
\* returns success after exactly N model calls, its output the trimmed content
\* of the N-th response; it never returns 'Max iterations reached'.
C2_ChainForcesFinalOutput ==
    ( /\ InRun /\ pc = "returned"
      /\ config.chainRun /\ AutoExec(config) /\ IterationBound(config) >= 1
      /\ response.kind = "message" /\ ~FinishRunExecuted )
    => /\ result.success
       /\ result.error # ErrMaxIterations
       /\ runCalls = IterationBound(config)
       /\ result.output = <<"str", Trim(response.content)>>

\* The batch of the response consumed last has been awaited and handled.
BatchHandled ==
    /\ InRun /\ response.kind = "message"
    /\ functionCalls # <<>> /\ Len(results) = Len(functionCalls)
    /\ pc \in {"awaitModel", "returned"}

\* Call i of the batch is a finish_run call whose execution succeeded.
FinishSucceeded(i) == functionCalls[i][1] = "finish_run" /\ results[i][1] = "finish"

\* The trimmed final_response of call i: read from the arguments the model sent
\* when the built-in tool ran, the result the caller's finish_run tool returned.
FinalResponse(i) ==
    IF tools[FindTool(tools, "finish_run")] = finishRunTool
    THEN (IF functionCalls[i][2][1] = "final" THEN Trim(functionCalls[i][2][2]) ELSE Empty)
    ELSE results[i][2]

\* The least i such that call i is a successful finish_run call, 0 when none is.
FirstFinish ==
    IF \E i \in 1..Len(results) : FinishSucceeded(i)
    THEN CHOOSE i \in 1..Len(results) :
             FinishSucceeded(i) /\ \A j \in 1..(i - 1) : ~FinishSucceeded(j)
    ELSE 0

C4_ManualToolCalls ==
    ( /\ InRun /\ config.autoExecuteTools = FALSE
      /\ response.kind = "message" /\ response.tool_calls # <<>> )
    => /\ pc = "returned"
       /\ result.success
       /\ Len(result.functionCalls) = Len(response.tool_calls)
       /\ \A i \in 1..Len(response.tool_calls) :
             /\ result.functionCalls[i][1] = response.tool_calls[i][1]
             /\ response.tool_calls[i][2] # ArgEmpty
                    => result.functionCalls[i][2] = response.tool_calls[i][2]
       /\ executed = <<>>
       /\ messages = Append(request.messages, AssistantMessage(response.content))
       /\ runCalls = iterationCount

C4_Witness ==
    /\ InRun /\ config.autoExecuteTools = FALSE /\ pc = "returned"
    /\ Len(result.functionCalls) = 2
    /\ result.functionCalls[1][1] = "calc" /\ result.functionCalls[2][1] = "ghost"

CallRaised(i) == results[i][1] = "str" /\ results[i][2][1] = "error"
CallReturned(i) == results[i][1] = "str" /\ results[i][2][1] = "block"

\* The message by which the outcome of call i reaches the transcript.
OutcomeMessage(i) ==
    IF results[i][1] = "finish" THEN FinishRunMessage(results[i][2])
    ELSE Msg("user", results[i][2])

LastTwoAreOutcomes ==
    /\ Len(messages) >= 3
    /\ messages[Len(messages) - 1] = OutcomeMessage(1)
    /\ messages[Len(messages)] = OutcomeMessage(2)

\* C5, as claimed: of two calls one succeeded and one raised: both outcomes are
\* in the transcript as two user messages and a further model call is issued.
C5_BothAppendedAndContinues ==
    ( /\ BatchHandled /\ Len(results) = 2
      /\ \E i, j \in 1..2 : (CallReturned(i) \/ FinishSucceeded(i)) /\ CallRaised(j) )
    => /\ LastTwoAreOutcomes
       /\ pc = "awaitModel"

\* C5, amended: of two calls, neither a successful finish_run, one returned and
\* one raised: both outcomes are appended as two user messages in request
\* order; then a further model call that carries them is issued, unless the
\* iteration was the last permitted one, in which case run() returns the
\* 'Max iterations reached' failure.
C5_BothAppended ==
    ( /\ BatchHandled /\ Len(results) = 2
      /\ \E i, j \in 1..2 : CallReturned(i) /\ CallRaised(j) )
    => /\ LastTwoAreOutcomes
       /\ \/ /\ pc = "awaitModel"
             /\ runCalls >= 2
             /\ request.messages = messages
          \/ /\ pc = "returned"
             /\ result = Failure(ErrMaxIterations)
             /\ iterationCount = IterationBound(config)

C5_Witness ==
    /\ BatchHandled /\ Len(results) = 2
    /\ CallRaised(1) /\ CallReturned(2)
    /\ pc = "awaitModel" /\ runCalls = 2

EndpointFailed(resp) == resp.kind \in {"raise", "nochoices", "nomessage"}

\* The error the specification states for a failed model call.
EndpointError(resp) ==
    CASE resp.kind = "raise"     -> (IF resp.message = "" THEN "Unknown LLM error"
                                     ELSE resp.message)
      [] resp.kind = "nochoices" -> "No response from model"
      [] resp.kind = "nomessage" -> "No message in model choice"

\* C6: the step on which a model call raises, returns no choice or returns a
\* choice without a message makes run() return the failure carrying the stated
\* error; that step appends no message, invokes no tool and issues no model
\* call, and no later step of the same run does either.
C6_EndpointFailureIsFinal ==
    [][ /\ (pc = "awaitModel" /\ EndpointFailed(response'))
            => /\ pc' = "returned"
               /\ result' = Failure(EndpointError(response'))
               /\ messages' = messages
               /\ executed' = executed
               /\ runCalls' = runCalls /\ llmCallIteration' = llmCallIteration
        /\ (pc = "returned" /\ EndpointFailed(response) /\ runs' = runs)
            => /\ pc' = "returned" /\ result' = result
               /\ messages' = messages
               /\ executed' = executed
               /\ runCalls' = runCalls /\ llmCallIteration' = llmCallIteration
      ]_vars

\* The second model call of a run raised an error without a message, after the
\* first one's tool call had been executed.
C6_Witness ==
    /\ InRun /\ pc = "returned"
    /\ response.kind = "raise" /\ response.message = ""
    /\ result = Failure("Unknown LLM error")
    /\ runCalls = 2 /\ Len(executed) = 1

RECURSIVE IsPrefix(_, _)
IsPrefix(s, t) ==
    IF s = <<>> THEN TRUE
    ELSE IF t = <<>> THEN FALSE
    ELSE Head(s) = Head(t) /\ IsPrefix(Tail(s), Tail(t))

\* C7: a failure run() returns carries a non-empty error string, and no step of
\* an agent, the failing one included, removes or reorders a message of the
\* store (the system message, which each iteration rewrites, aside): what was
\* appended before a failure is still there after it, in the same order.
C7_FailureKeepsStore ==
    [][ agent = "ready"
            => /\ IsPrefix(Tail(messages), Tail(messages'))
               /\ (pc' = "returned" /\ ~result'.success)
                    => result'.error \notin {"", Undefined}
      ]_vars

\* A failure after a user input, an assistant turn and a tool result.
C7_Witness ==
    /\ InRun /\ pc = "returned" /\ ~result.success
    /\ result.error = "boom"
    /\ Len(messages) = 4
    /\ Role(messages[2]) = "user" /\ Role(messages[3]) = "assistant"
    /\ Role(messages[4]) = "user"

OutputFormatCount(m) ==
    Cardinality({ i \in 1..Len(m[2][2]) : IsOutputFormat(m[2][2][i]) })

\* C8: a construction with both cognition and structuredOutputSchema set threw
\* and left no agent; an agent that exists has at most one of the two modes
\* and the system prompt it stores and sends has at most one OUTPUT FORMAT block.
C8_ExclusiveOutputModes ==
    /\ (agent # "none" /\ config.cognition /\ config.structuredOutputSchema)
        => /\ agent = "threw"
           /\ ctorError = (IF apiKey THEN ErrExclusive ELSE ErrNoKey)
           /\ messages = <<>> /\ runs = 0
    /\ agent = "ready"
        => /\ ~(config.cognition /\ config.structuredOutputSchema)
           /\ OutputFormatCount(messages[1]) <= 1
           /\ request # NoRequest => OutputFormatCount(request.messages[1]) <= 1

C8_Witness ==
    /\ agent = "threw" /\ ctorError = ErrExclusive
    /\ config.cognition /\ config.structuredOutputSchema /\ ~config.forceTool

\* C9: a construction with forceTool enabled yields an agent only when the
\* tools array holds exactly one tool and chainRun is not enabled; with zero
\* tools, more than one tool or chainRun it throws a configuration error.
C9_ForceToolConstruction ==
    [][ (agent = "none" /\ agent' # "none" /\ config.forceTool)
            => /\ agent' = "ready" => (Len(tools) = 1 /\ ~config.chainRun)
               /\ (Len(tools) # 1 \/ config.chainRun)
                    => /\ agent' = "threw"
                       /\ ctorError' \in {ErrNoKey, ErrExclusive, ErrForceChain, ErrForceOne}
                       /\ (apiKey /\ ~(config.cognition /\ config.structuredOutputSchema))
                            => ctorError' = (IF config.chainRun THEN ErrForceChain
                                             ELSE ErrForceOne)
                       /\ tools' = tools
      ]_vars

\* forceTool with two tools was rejected.
C9_Witness ==
    /\ agent = "threw" /\ config.forceTool /\ ~config.chainRun
    /\ ctorError = ErrForceOne /\ Len(tools) = 2

\* C10: the tool-choice directive of every model call is the sole registered
\* tool's name if forceTool is enabled, otherwise finish_run if chainRun is
\* enabled and the iteration number equals the maximum, otherwise 'auto'.
C10_ToolChoiceDirective ==
    (InRun /\ request # NoRequest) =>
        request.tool_choice =
            IF config.forceTool THEN Function(request.tools[1])
            ELSE IF config.chainRun /\ request.iteration = IterationBound(config)
                 THEN Function("finish_run")
                 ELSE Auto

\* C11: after every step of an agent the store is non-empty, its message at
\* index 0 is the only one of role system, and a step that issues a model call
\* leaves there the prompt built for that iteration, sends the store as it then
\* is, and keeps every other message in its place.
C11_SystemMessageRewritten ==
    [][ agent' = "ready"
            => /\ Len(messages') >= 1
               /\ Role(messages'[1]) = "system"
               /\ \A i \in 2..Len(messages') : Role(messages'[i]) # "system"
               /\ llmCallIteration' # llmCallIteration
                    => /\ messages'[1] =
                              SystemMessage(BuildSystemPrompt(config, iterationCount'))
                       /\ request'.messages = messages'
                       /\ request'.iteration = iterationCount'
                       /\ agent = "ready" => IsPrefix(Tail(messages), Tail(messages'))
      ]_vars

\* The first call of a second run in chain mode: the last-iteration warning of
\* the first run's prompt has been replaced by the prompt of iteration 1.
C11_Witness ==
    /\ InRun /\ runs = 2 /\ pc = "awaitModel" /\ iterationCount = 1
    /\ config.chainRun /\ config.maxChainIterations = 2
    /\ llmCallIteration = 3
    /\ messages[1] = SystemMessage(<<"base", ChainInstructions(MaxIters(config))>>)
    /\ request.messages[1] = messages[1]

SomePending(rs) == \E i \in 1..Len(rs) : rs[i] = Pending

\* C12: (a) dispatching a batch invokes, in that same step, every call of it
\* that names a registered tool, whatever the other calls do; (b) while a call
\* of the batch has not settled, the run stays where it is: nothing is appended
\* to the store, no model call is issued, nothing is returned; (c) a call
\* settling fills its own slot only.
C12_BatchAwaited ==
    [][ /\ (pc # "awaitTools" /\ pc' = "awaitTools")
            => /\ messages' = Append(messages, AssistantMessage(response'.content))
               /\ Len(results') = Len(functionCalls')
               /\ \A i \in 1..Len(results') :
                     results'[i] = Pending <=> FindTool(tools, functionCalls'[i][1]) # 0
               /\ Len(executed') = Len(executed)
                     + Cardinality({ i \in 1..Len(results') : results'[i] = Pending })
        /\ (pc = "awaitTools" /\ SomePending(results))
            => /\ pc' = "awaitTools"
               /\ messages' = messages
               /\ runCalls' = runCalls /\ llmCallIteration' = llmCallIteration
               /\ request' = request /\ result' = result
               /\ executed' = executed
               /\ \A j \in 1..Len(results) :
                     results'[j] # results[j] => results[j] = Pending
      ]_vars

\* The second call of a batch has raised while the first has not settled yet:
\* both were invoked, and the run waits.
C12_Witness ==
    /\ InRun /\ pc = "awaitTools" /\ Len(results) = 2
    /\ results[1] = Pending
    /\ results[2][1] = "str" /\ results[2][2][1] = "error"
    /\ Len(executed) = 2
    /\ runCalls = 1
    /\ messages = Append(request.messages, AssistantMessage(response.content))

\* The model-endpoint calls of the agent's conversation that have not settled.
InFlight ==
    (IF pc = "awaitModel" THEN 1 ELSE 0) + (IF gui.pc = "awaitModel" THEN 1 ELSE 0)

\* C13: at most one model-endpoint call of a conversation is in flight at any
\* time.
C13_OneModelCallInFlight == agent = "ready" => InFlight <= 1

\* The run consumed a fifth model response, which carried tool calls, and the
\* batch has been handled.
FifthBatchHandled ==
    /\ InRun /\ iterationCount >= 5
    /\ response.kind = "message" /\ response.tool_calls # <<>>
    /\ ~(runCalls = 5 /\ pc \in {"awaitModel", "awaitTools"})

\* The last 2 * n messages of the store are n times an assistant message
\* followed by a user message.
RECURSIVE EndsWithTurns(_, _)
EndsWithTurns(m, n) ==
    IF n = 0 THEN TRUE
    ELSE /\ Len(m) >= 2
         /\ Role(m[Len(m) - 1]) = "assistant"
         /\ Role(m[Len(m)]) = "user" /\ Content(m[Len(m)])[1] # "parts"
         /\ EndsWithTurns(SubSeq(m, 1, Len(m) - 2), n - 1)

\* C14: without chainRun and forceTool, with auto-execution, once the fifth
\* response of a run carrying tool calls has been handled, run() has returned
\* the failure 'Max iterations reached' after exactly 5 model calls; the store
\* ends with the 5 assistant messages, each followed by its batch's result, and
\* every call of the 5 batches that names a registered tool was executed.
C14_FiveBatchesThenFailure ==
    (FifthBatchHandled /\ ~config.chainRun /\ ~config.forceTool /\ AutoExec(config))
    => /\ pc = "returned"
       /\ result = Failure("Max iterations reached")
       /\ runCalls = 5
       /\ EndsWithTurns(messages, 5)
       /\ FindTool(tools, "calc") # 0 => Len(executed) = 5

\* In a second run, with the tool registered, one of the five batches raising.
C14_Witness ==
    /\ FifthBatchHandled /\ ~config.chainRun /\ ~config.forceTool /\ AutoExec(config)
    /\ runs = 2 /\ pc = "returned" /\ Len(executed) = 5
    /\ \E i \in 1..Len(messages) : Content(messages[i])[1] = "error"
    /\ \E i \in 1..Len(messages) : Content(messages[i])[1] = "block"

\* The places of the first <speak> and of the first </speak> after it.
SpeakPairs(content) ==
    { p \in (1..Len(content)) \X (1..Len(content)) :
        /\ p[1] < p[2]
        /\ content[p[1]] = "<speak>" /\ content[p[2]] = "</speak>"
        /\ \A i \in 1..(p[1] - 1) : content[i] # "<speak>"
        /\ \A j \in (p[1] + 1)..(p[2] - 1) : content[j] # "</speak>" }

SpokenText(content) ==
    IF SpeakPairs(content) = {} THEN Trim(content)
    ELSE LET p == CHOOSE q \in SpeakPairs(content) : TRUE
         IN  Trim(SubSeq(content, p[1] + 1, p[2] - 1))

\* C15: with cognition on and chainRun off, a response without tool calls makes
\* run() return success with the trimmed text between the first <speak> and the
\* first </speak> after it, or the trimmed content when there is no such pair.
C15_SpeakExtraction ==
    ( /\ InRun /\ config.cognition /\ ~config.chainRun
      /\ response.kind = "message" /\ response.tool_calls = <<>> )
    => /\ pc = "returned"
       /\ result = Success(<<"str", SpokenText(response.content)>>, <<>>)

\* Text before <speak>, white space inside the tags.
C15_Witness ==
    /\ InRun /\ config.cognition /\ ~config.chainRun /\ pc = "returned"
    /\ response.content = <<"x", "<speak>", " ", "b", "</speak>">>
    /\ result.output = <<"str", <<"b">>>>

\* A text that is one JSON document.
IsJsonDocument(text) == Len(text) = 1 /\ text[1] = "{json}"

\* C16: with structuredOutputSchema set and chainRun off, a response without
\* tool calls makes run() return success; the output is the parsed value when
\* the trimmed content is a JSON document and the trimmed content otherwise.
C16_StructuredOutput ==
    ( /\ InRun /\ config.structuredOutputSchema /\ ~config.chainRun
      /\ response.kind = "message" /\ response.tool_calls = <<>> )
    => /\ pc = "returned"
       /\ result.success /\ result.error = Undefined
       /\ result.output =
              IF IsJsonDocument(Trim(response.content))
              THEN <<"json", Trim(response.content)>>
              ELSE <<"str", Trim(response.content)>>

\* Content that does not parse: the trimmed string, and success.
C16_Witness ==
    /\ InRun /\ config.structuredOutputSchema /\ ~config.chainRun /\ pc = "returned"
    /\ response.content = <<" ", "a", " ">>
    /\ result = Success(<<"str", <<"a">>>>, <<>>)
    /\ request.response_format

\* Call i of the batch names no tool of the tools array.
Unregistered(i) == FindTool(tools, functionCalls[i][1]) = 0

NotFoundMessage(i) == Msg("user", <<"notfound", functionCalls[i][1]>>)

\* The messages the batch left at the end of the store: one per call, in order.
OutcomesAppended ==
    /\ Len(messages) > Len(results)
    /\ \A i \in 1..Len(results) :
          messages[Len(messages) - Len(results) + i] = OutcomeMessage(i)

\* C17, as claimed: a call that names no registered tool leaves the user
\* message 'Tool <name> not found' in the store, at its place among the results.
C17_NotFoundAppended ==
    (BatchHandled /\ AutoExec(config)) =>
        \A i \in 1..Len(results) :
            Unregistered(i) =>
                /\ Len(messages) > Len(results)
                /\ messages[Len(messages) - Len(results) + i] = NotFoundMessage(i)

\* C17, amended: a call that names no registered tool has the text
\* 'Tool <name> not found' as its result and no tool is invoked for it; the run
\* does not fail because of it (it fails only by the iteration bound); unless a
\* finish_run call of the same batch succeeds, the text and the results of the
\* other calls are appended as user messages in request order.
C17_NotFoundIsAResult ==
    (BatchHandled /\ AutoExec(config)) =>
        \A i \in 1..Len(results) :
            Unregistered(i) =>
                /\ results[i] = Str(<<"notfound", functionCalls[i][1]>>)
                /\ \A e \in 1..Len(executed) : executed[e][1] # functionCalls[i][1]
                /\ Len(executed) =
                       Cardinality({ j \in 1..Len(results) :
                                       results[j] # Str(<<"notfound", functionCalls[j][1]>>) })
                /\ (pc = "returned" /\ ~result.success)
                       => /\ result = Failure(ErrMaxIterations)
                          /\ iterationCount = IterationBound(config)
                /\ FirstFinish = 0 => OutcomesAppended
                /\ FirstFinish # 0 => result.success

\* An unregistered call first, then a registered one that returned: both
\* results appended, the run goes on.
C17_Witness ==
    /\ BatchHandled /\ AutoExec(config) /\ Len(results) = 2
    /\ functionCalls[1][1] = "ghost" /\ CallReturned(2)
    /\ pc = "awaitModel" /\ Len(executed) = 1
    /\ messages[Len(messages) - 1] = NotFoundMessage(1)

\* C18: a returned result with success = false has as its error the endpoint
\* error of the last response or, when the last response was a message, 'Max
\* iterations reached' at the iteration bound; its output is empty and it has
\* no functionCalls. A returned result with success = true has no error. So a
\* tool that raised, a missing tool or an unparsable structured output is never
\* the error of a result.
C18_FailureErrors ==
    (InRun /\ pc = "returned") =>
        IF result.success
        THEN result.error = Undefined
        ELSE /\ result.output = <<"str", Empty>>
             /\ result.functionCalls = <<>>
             /\ result.error \in { ErrNoResponse, ErrNoMessage, ErrMaxIterations,
                                   "Unknown LLM error", "boom" }
             /\ IF EndpointFailed(response)
                THEN result.error = EndpointError(response)
                ELSE /\ result.error = ErrMaxIterations
                     /\ iterationCount = IterationBound(config)

\* A run whose last batch held a tool that raised ends with 'Max iterations
\* reached', not with the tool's error.
C18_Witness ==
    /\ InRun /\ pc = "returned" /\ ~result.success
    /\ result = Failure(ErrMaxIterations)
    /\ Len(results) = 1 /\ CallRaised(1)

\* C19: an agent with debug enabled and the agent built from the same
\* configuration with debug disabled, fed the same model and tool responses,
\* are constructed alike, issue the same model requests, hold the same message
\* store and return the same result.
C19_DebugChangesNothing ==
    agent # "none" =>
        /\ twin.agent = agent
        /\ twin.ctorError = ctorError
        /\ twin.tools = tools
        /\ twin.run.messages = messages
        /\ twin.run.request = request
        /\ twin.run.pc = pc
        /\ twin.run.result = result

Synthetic(arr) == { i \in 1..Len(arr) : arr[i] = finishRunTool }

\* The configuration of the agent a constructor step constructs: this agent's,
\* or the sibling's once this agent exists.
Constructing == IF agent = "none" THEN config ELSE SiblingConfig

\* C21: a constructor that completes with chainRun leaves a tool named
\* finish_run in the tools array; it appends the synthetic finish_run tool
\* exactly when the array it was given holds no tool of that name and changes
\* the array in no other way, so the array never holds two synthetic tools;
\* without chainRun it leaves the array as it was.
C21_FinishRunAppended ==
    [][ /\ (agent = "none" /\ agent' = "ready") =>
              /\ config.chainRun => AlreadyHasFinishRun(tools')
              /\ tools' = IF config.chainRun /\ ~AlreadyHasFinishRun(tools)
                          THEN Append(tools, finishRunTool) ELSE tools
        /\ tools' # tools =>
              /\ Constructing.chainRun /\ ~AlreadyHasFinishRun(tools)
              /\ tools' = Append(tools, finishRunTool)
        /\ Cardinality(Synthetic(tools')) <= 1 ]_vars

\* A chainRun agent constructed over an array that already held a caller's
\* tool named finish_run: nothing was appended.
C21_Witness ==
    /\ agent = "ready" /\ config.chainRun
    /\ tools = <<"calc", "user_finish">>

\* Some provider of the configuration raises when it is called.
SomeProviderRaises(cfg) ==
    \E k \in 1..Len(cfg.dynamicVariables) : cfg.dynamicVariables[k][2] = "raises"

\* The base prompt with every placeholder of a provided key replaced: by the
\* provider's value, or by the bracketed error text when the provider raises.
Substituted(cfg) ==
    LET dv == cfg.dynamicVariables
        text(token) ==
            IF \E k \in 1..Len(dv) : token \in Placeholders(dv[k][1])
            THEN LET k == CHOOSE k \in 1..Len(dv) : token \in Placeholders(dv[k][1])
                 IN  IF dv[k][2] = "raises" THEN ErrorPlaceholder(dv[k][1])
                     ELSE ProviderValue(dv[k][1])
            ELSE token
    IN  [i \in 1..Len(cfg.systemPrompt) |-> text(cfg.systemPrompt[i])]

\* C22: when a provider raises while the system prompt is built, run() is not
\* aborted: the model call of the iteration is made, with a system message in
\* which the placeholders of that provider are replaced by the bracketed error
\* text and those of every other provider by its value.
C22_ProviderFailureNeverAborts ==
    (InRun /\ SomeProviderRaises(config)) =>
        /\ pc # "rejected"
        /\ pc = "awaitModel" =>
              /\ request.iteration = iterationCount
              /\ request.messages[1] =
                     SystemMessage(Substituted(config) \o ChainBlocks(config, iterationCount)
                                       \o OutputFormatBlocks(config))

\* C23: in every step of a constructed agent (addUserMessage,
\* addAssistantMessage, and every step of run()) the message store does not
\* shrink and the messages at the indices >= 1 stay what and where they were;
\* only the content of the message at index 0 may change.
C23_StoreAppendOnly ==
    [][ agent = "ready" =>
            /\ Len(messages') >= Len(messages)
            /\ IsPrefix(Tail(messages), Tail(messages'))
            /\ messages'[1][1] = messages[1][1] ]_vars

\* A store that caller appends and a run have both written to, its system
\* message rewritten by the run.
C23_Witness ==
    /\ InRun /\ pc = "returned" /\ Len(messages) = MaxStoreLen
    /\ messages[1] # SystemMessage(<<>>)
    /\ \E i, j \in 2..Len(messages) :
          /\ messages[i] = AssistantMessage(<<"s">>)
          /\ messages[j] = Msg("user", <<"parts", <<"u">>, <<"img">>>>)

\* The assistant-role messages of a store.
AssistantCount(m) == Cardinality({ i \in 1..Len(m) : m[i][1] = "assistant" })

\* The awaited model call settles in this step.
ModelCallSettled ==
    pc = "awaitModel" /\ (pc' # "awaitModel" \/ iterationCount' # iterationCount)

\* C24: the step that receives a model response with a message appends one
\* assistant message, the response's content or the empty text when the content
\* is absent, directly behind the store as it was, ahead of whatever else that
\* step appends and of every tool result, also when the response requests
\* tools; no other step of run() appends an assistant message, so a run that
\* received n such responses appended n assistant messages.
C24_OneAssistantMessagePerResponse ==
    [][ /\ agent = "none" => AssistantCount(messages') = 0
        /\ agent = "ready" =>
              IF ModelCallSettled /\ response'.kind = "message"
              THEN /\ Len(messages') > Len(messages)
                   /\ SubSeq(messages', 2, Len(messages)) = Tail(messages)
                   /\ messages'[Len(messages) + 1] =
                          AssistantMessage(IF response'.content = Absent THEN Empty
                                           ELSE response'.content)
                   /\ AssistantCount(messages') = AssistantCount(messages) + 1
                   /\ pc' = "awaitTools" =>
                          /\ Len(messages') = Len(messages) + 1
                          /\ response'.tool_calls # <<>>
              ELSE AssistantCount(messages') = AssistantCount(messages) ]_vars

\* The second response of a run had no content and requested a tool: its empty
\* assistant message is the last of the store while the tool call is pending.
C24_Witness ==
    /\ InRun /\ pc = "awaitTools" /\ iterationCount = 2
    /\ response.content = Absent /\ SomePending(results)
    /\ messages[Len(messages)] = AssistantMessage(Empty)
    /\ AssistantCount(messages) = 2

\* C25: after an auto-executed batch of k calls none of which is a finish_run
\* call that succeeded, the store ends with the assistant message of that
\* iteration followed by exactly k user messages, the i-th holding the result
\* of the i-th requested call, in whatever order the calls settled.
C25_ResultsInRequestOrder ==
    (BatchHandled /\ AutoExec(config) /\ FirstFinish = 0) =>
        LET k == Len(results)
            n == Len(messages)
        IN  /\ n > k + 1
            /\ messages[n - k] = AssistantMessage(response.content)
            /\ \A i \in 1..k :
                  /\ results[i][1] = "str"
                  /\ messages[n - k + i] = Msg("user", results[i][2])
                  /\ results[i][2][2] = functionCalls[i][1]
            /\ pc = "returned" => n = Len(request.messages) + 1 + k
            /\ pc = "awaitModel" => request.messages = messages

\* A batch of a tool that raised and a finish_run call whose arguments did not
\* parse: two error messages in that order behind the assistant message.
C25_Witness ==
    /\ BatchHandled /\ AutoExec(config) /\ Len(results) = 2
    /\ functionCalls[1][1] = "calc" /\ CallRaised(1)
    /\ functionCalls[2][1] = "finish_run" /\ CallRaised(2)
    /\ messages[Len(messages) - 2] = AssistantMessage(response.content)
    /\ messages[Len(messages)] = Msg("user", results[2][2])

\* C26: in a chain run, a response without tool calls on an iteration before
\* the last does not end the run: no result is returned, the assistant message
\* is the only message appended, and the next model call is issued, its
\* iteration number one higher.
C26_ChainContinues ==
    [][ ( /\ agent = "ready" /\ config.chainRun
          /\ pc = "awaitModel" /\ messages' # messages
          /\ response'.kind = "message" /\ response'.tool_calls = <<>>
          /\ iterationCount < IterationBound(config) )
        => /\ pc' = "awaitModel"
           /\ result' = NoResult
           /\ Len(messages') = Len(messages) + 1
           /\ messages'[Len(messages')] = AssistantMessage(response'.content)
           /\ SubSeq(messages', 2, Len(messages)) = Tail(messages)
           /\ iterationCount' = iterationCount + 1
           /\ runCalls' = runCalls + 1
           /\ request'.iteration = request.iteration + 1
           /\ request'.messages = messages' ]_vars

\* A chain run awaiting its third model call after two responses that
\* requested no tool.
C26_Witness ==
    /\ InRun /\ config.chainRun /\ pc = "awaitModel"
    /\ iterationCount = 3 /\ runCalls = 3 /\ executed = <<>>
    /\ response.kind = "message" /\ response.tool_calls = <<>>
    /\ Len(messages) = 4

\* The blocks of the system message the last model request was sent with.
SentPrompt == request.messages[1][2][2]

HasBlock(blocks, text) == \E i \in 1..Len(blocks) : blocks[i] = text

\* C27: in a chain run the system message sent with iteration i holds the
\* chain-run instructions stating the budget (maxChainIterations, 5 when unset)
\* on every iteration, and the last-iteration warning if and only if i equals
\* that budget; with chainRun off it holds neither.
C27_LastIterationWarning ==
    (agent = "ready" /\ request # NoRequest) =>
        LET budget == IF config.maxChainIterations = Unset THEN 5
                      ELSE config.maxChainIterations
        IN  IF config.chainRun
            THEN /\ HasBlock(SentPrompt, ChainInstructions(budget))
                 /\ HasBlock(SentPrompt, LastIterationWarning)
                        <=> request.iteration = budget
            ELSE /\ ~HasBlock(SentPrompt, LastIterationWarning)
                 /\ \A n \in 0..(MaxChain + 5) : ~HasBlock(SentPrompt, ChainInstructions(n))

\* The fifth request of a chain run with the default budget carries the warning.
C27_Witness ==
    /\ InRun /\ config.chainRun /\ config.maxChainIterations = Unset
    /\ pc = "awaitModel" /\ request.iteration = 5
    /\ SentPrompt = <<"base", "CHAIN RUNNING ENABLED for 5 iterations",
                      "WARNING LAST ITERATION">>

\* run() is suspended at an await.
Suspended == agent = "ready" /\ pc \in {"awaitModel", "awaitTools"}

\* A step of another writer of the store: a caller's append, or a step of the
\* run() the debug server started, while the first run() does not move.
OtherWriter ==
    /\ messages' # messages
    /\ UNCHANGED <<pc, iterationCount, request, response, functionCalls, results,
                   result, runCalls>>

\* The assistant message of the iteration in progress is in the store: some
\* assistant message lies behind the messages the iteration's request was sent with.
AssistantOfIteration ==
    \E i \in (Len(request.messages) + 1)..Len(messages) : messages[i][1] = "assistant"

\* C28, as claimed: whatever another writer appends while run() is suspended,
\* awaiting the model or a tool batch, is appended to the same store at once
\* and lands behind the assistant message of the run's iteration (and so ahead
\* of its tool results).
C28_LandsBehindAssistant ==
    [][ (Suspended /\ OtherWriter) =>
            /\ Len(messages') > Len(messages)
            /\ IsPrefix(Tail(messages), Tail(messages'))
            /\ AssistantOfIteration ]_vars

\* C28, amended: whatever another writer appends while run() is suspended is
\* appended to the same store at once, at its end as it is at that moment;
\* while run() awaits a tool batch that is behind the assistant message of the
\* iteration, and the run then appends its tool results behind it; while run()
\* awaits the model it is ahead of the assistant message, which the run appends
\* behind it.
C28_NoOverlapGuard ==
    [][ /\ (Suspended /\ OtherWriter) =>
              /\ Len(messages') > Len(messages)
              /\ IsPrefix(Tail(messages), Tail(messages'))
              /\ pc = "awaitTools" => AssistantOfIteration
        /\ (agent = "ready" /\ pc = "awaitTools" /\ pc' # "awaitTools" /\ FinishRunCall(results) = 0)
              => Tail(messages') = Tail(messages) \o ResultMessages(results)
        /\ (agent = "ready" /\ pc = "awaitModel" /\ response' # response
                /\ response'.kind = "message")
              => /\ IsPrefix(Tail(messages), Tail(messages'))
                 /\ messages'[Len(messages) + 1] = AssistantMessage(response'.content)
      ]_vars

\* The caller added an assistant message and the debug server started a run
\* while the first run awaited its tool: both sit between the first run's
\* assistant message and its tool result.
C28_Witness ==
    /\ BatchHandled /\ Len(results) = 1 /\ CallReturned(1) /\ gui.pc = "awaitModel"
    /\ LET n == Len(messages)
       IN  /\ n = 6
           /\ messages[n] = OutcomeMessage(1)
           /\ messages[n - 1] = UserMessage(<<"q">>)
           /\ messages[n - 2] = AssistantMessage(<<"s">>)
           /\ messages[n - 3] = AssistantMessage(response.content)

FinishFailed(i) == functionCalls[i][1] = "finish_run" /\ CallRaised(i)

\* Call i of the batch was given to the built-in finish_run tool with an
\* argument string that is no JSON, on which its execute raises.
BadJsonFinish(i) ==
    /\ functionCalls[i] = <<"finish_run", ArgBadJson>>
    /\ FindTool(tools, "finish_run") # 0
    /\ tools[FindTool(tools, "finish_run")] = finishRunTool
    /\ results[i] # Str(<<"notfound", "finish_run">>)

\* The run went on after the batch: to the next model call, or to the failure
\* 'Max iterations reached' when the iteration was the last.
WentOn ==
    \/ pc = "awaitModel" /\ runCalls >= 2 /\ request.messages = messages
    \/ /\ pc = "returned" /\ result = Failure(ErrMaxIterations)
       /\ iterationCount = IterationBound(config)

\* C30, as claimed: a finish_run call whose execution raised leaves its
\* 'Error in tool finish_run' text in the store as a user message at its place
\* among the results, and the run goes on.
C30_FailedFinishAppended ==
    (BatchHandled /\ AutoExec(config)) =>
        \A i \in 1..Len(results) :
            FinishFailed(i) =>
                /\ OutcomesAppended
                /\ messages[Len(messages) - Len(results) + i][2][1] = "error"
                /\ WentOn

\* C30, amended: a finish_run call whose execution raised does not finalize the
\* run: its result is the text 'Error in tool finish_run: ...'; unless another
\* finish_run call of the same batch succeeds, that text is appended as a user
\* message at its place among the results and the run goes on to the next
\* iteration or to 'Max iterations reached'; when another finish_run call of
\* the batch succeeds, the run returns that call's final response.
C30_FailedFinishGoesOn ==
    (BatchHandled /\ AutoExec(config)) =>
        \A i \in 1..Len(results) :
            (FinishFailed(i) \/ BadJsonFinish(i)) =>
                /\ CallRaised(i)
                /\ results[i][2][2] = "finish_run"
                /\ FinishRunCall(results) # i
                /\ IF FirstFinish = 0
                   THEN /\ OutcomesAppended
                        /\ messages[Len(messages) - Len(results) + i][2][1] = "error"
                        /\ WentOn
                   ELSE /\ FirstFinish # i
                        /\ pc = "returned"
                        /\ result = Success(<<"str", results[FirstFinish][2]>>, <<>>)

\* A chain run whose only call was finish_run with arguments that are no JSON:
\* the error is the last message and the second model call is pending.
C30_Witness ==
    /\ BatchHandled /\ AutoExec(config) /\ config.chainRun
    /\ Len(results) = 1 /\ functionCalls[1] = <<"finish_run", ArgBadJson>>
    /\ FinishFailed(1) /\ pc = "awaitModel" /\ runCalls = 2
    /\ messages[Len(messages)] = Msg("user", results[1][2])

\* The calls of the batch for which a tool was found, in request order.
RECURSIVE FoundCallsFrom(_)
FoundCallsFrom(i) ==
    IF i > Len(results) THEN <<>>
    ELSE (IF results[i] = Str(ToolNotFound(functionCalls[i][1])) THEN <<>>
          ELSE <<functionCalls[i]>>) \o FoundCallsFrom(i + 1)

\* C31: when an auto-executed batch of two or more calls holds a successful
\* finish_run call, every other call that names a tool was still invoked, yet
\* run() returns with the store holding, behind what was sent to the model,
\* the assistant message and exactly one user message, the finish_run block:
\* no result of another call is appended.
C31_OnlyFinishRunAppended ==
    (BatchHandled /\ AutoExec(config) /\ Len(results) >= 2 /\ FirstFinish # 0) =>
        /\ pc = "returned"
        /\ messages = request.messages \o
                        << AssistantMessage(ContentOf(response)),
                           FinishRunMessage(results[FirstFinish][2]) >>
        /\ Len(executed) >= Len(FoundCallsFrom(1))
        /\ SubSeq(executed, Len(executed) - Len(FoundCallsFrom(1)) + 1, Len(executed))
               = FoundCallsFrom(1)

\* A tool that returned a result and a successful finish_run behind it: both
\* were invoked, only the finish_run block follows the assistant message.
C31_Witness ==
    /\ BatchHandled /\ AutoExec(config) /\ Len(results) = 2
    /\ functionCalls[1][1] = "calc" /\ CallReturned(1)
    /\ FinishSucceeded(2)
    /\ Len(executed) >= 2
    /\ messages[Len(messages)] = FinishRunMessage(results[2][2])
    /\ messages[Len(messages) - 1] = AssistantMessage(ContentOf(response))

\* The calls of a batch that name a tool of the tools array, in request order.
NamedCalls(calls) ==
    SelectSeq(calls, LAMBDA c : \E k \in 1..Len(tools) : ToolName(tools[k]) = c[1])

\* C32: the invocations of execute made during a run grow in one step only:
\* when a model response with tool calls is consumed under auto-execution, and
\* then by exactly one invocation per call of that response that names a tool,
\* with that call's name and arguments, in request order.  No other step of the
\* run invokes a tool: not the settling of a call (no retry after a raise), not
\* the handling of the batch, not a step taken after run() failed or returned.
C32_ExecuteOncePerCall ==
    [][ /\ (pc = "awaitModel" /\ pc' = "awaitTools")
            => /\ AutoExec(config)
               /\ executed' = executed \o NamedCalls(FunctionCallsOf(response'.tool_calls))
        /\ (executed' # executed /\ runs' = runs)
            => /\ pc = "awaitModel" /\ pc' = "awaitTools"
               /\ Len(executed') > Len(executed)
        /\ runs' # runs => executed' = <<>> ]_vars

\* Second iteration, after a call of the first iteration raised: the response
\* requests the same tool twice with the same arguments; execute was invoked
\* once for the earlier call and once for each of the two calls.
C32_Witness ==
    /\ InRun /\ AutoExec(config) /\ pc = "awaitTools" /\ iterationCount = 2
    /\ Len(functionCalls) = 2 /\ functionCalls[1] = functionCalls[2]
    /\ Len(executed) = 3
    /\ executed[1] = functionCalls[1] /\ executed[3] = functionCalls[2]
    /\ Len(messages) >= 2 /\ Role(messages[Len(messages) - 1]) = "user"
    /\ Content(messages[Len(messages) - 1])[1] = "error"

\* The configuration with no tool_choice key among its additionalParams.
WithoutPassthrough(cfg) == [cfg EXCEPT !.toolChoiceParam = Undefined]

\* C33: every model request carries the messages, tools, tool_choice and
\* response_format the Run Controller computed for that iteration: they are
\* what the same configuration would send with no key of additionalParams
\* naming a core field.
C33_PassthroughKeepsCoreFields ==
    [][ (pc' = "awaitModel" /\ request' # request)
            => request' = CallParams(WithoutPassthrough(config), tools', messages',
                                     iterationCount') ]_vars

\* C34: no step changes the tools array the caller supplied: constructing an
\* agent over it, in particular, leaves it as the caller built it, so an agent
\* constructed over the same array later sees what it would have seen alone.
C34_ConstructionKeepsTools ==
    [][ tools' = tools ]_vars

\* What run(u) does to the store before its first iteration: one user message
\* behind the history for a non-empty string, nothing for an absent or empty
\* one.  The system message, element 1, is rewritten by the iteration itself.
InputAppended(u) ==
    Tail(messages') = IF Truthy(u) THEN Append(Tail(messages), UserMessage(u))
                      ELSE Tail(messages)

C36_GetMessagesCopies ==
    [][ /\ GetMessages
            => /\ held'.array = "copy"
               /\ HeldElems' = [i \in 1..Len(messages) |-> i]
        /\ (HeldPush \/ HeldPop \/ HeldReverse)
            => /\ messages' = messages
               /\ HeldElems' # HeldElems
        /\ (held.array # "none" /\ messages' # messages)
            => /\ held' = held
               /\ Len(HeldElems') = Len(HeldElems) ]_vars

\* The caller took the history before run(), reversed its array and pushed an
\* object of its own; the run then appended to the store: the two differ in
\* length and in order.
C36_Witness ==
    /\ InRun /\ held.array = "copy"
    /\ Len(held.elems) = 2 /\ held.elems[1] = 0 /\ held.elems[2] = 1
    /\ Len(messages) >= 3
    /\ Role(messages[1]) = "system" /\ Role(messages[Len(messages)]) = "assistant"

\* C39: whatever the sequence of startServer() calls, the HTTP server's listen
\* is called at most once, also when a call arrives before the listen an
\* earlier call led to has completed.
C39_ListenAtMostOnce ==
    server.listens <= 1

\* The events a step adds to what the sink has received, log updates left out.
NewEvents ==
    SelectSeq(SubSeq(bus'.events, Len(bus.events) + 1, Len(bus'.events)),
              LAMBDA e : e.type # "agentLogsUpdated")

\* The newest request record the sink was sent with event e.
LastRecord(e) == e.payload[Len(e.payload)]

\* What the sink receives when an iteration begins: the system prompt now in
\* the store, then the request record of this iteration, without a response.
IterationAnnounced ==
    LET n == Len(NewEvents)
    IN  /\ n >= 2
        /\ NewEvents[n - 1] = BusEvent("systemPromptUpdated", Content(messages'[1]))
        /\ NewEvents[n].type = "llmRequestsUpdated"
        /\ LastRecord(NewEvents[n]).iteration = llmCallIteration'
        /\ LastRecord(NewEvents[n]).responseData = NoResponseData

\* What the sink receives when the endpoint call succeeded: the response
\* record of this iteration, then the history with the assistant message.
ResponseReported ==
    /\ Len(NewEvents) >= 2
    /\ NewEvents[1].type = "llmRequestsUpdated"
    /\ LastRecord(NewEvents[1]).iteration = llmCallIteration
    /\ LastRecord(NewEvents[1]).responseData # NoResponseData
    /\ NewEvents[2].type = "chatHistoryUpdated"
    /\ NewEvents[2].payload = Append(messages, AssistantMessage(ContentOf(response')))

\* What the sink receives when the endpoint call failed: an error update and
\* no response record.
FailureReported ==
    /\ NewEvents = << BusEvent("agentError", result'.error) >>
    /\ bus'.llmRequests = bus.llmRequests

\* C37: with debug enabled, the sink receives in each iteration the
\* system-prompt update and then the request record; when the endpoint call
\* succeeded, the response record of the same iteration and then the
\* chat-history update for the appended assistant message; when it failed, an
\* error update and no response record.  Every event carries state the store
\* already holds.
C37_SinkEventOrder ==
    [][ config.debug =>
          /\ (pc' = "awaitModel" /\ llmCallIteration' # llmCallIteration)
                => IterationAnnounced
          /\ \A resp \in MessageResponses(scenario) : ModelResponds(resp) => ResponseReported
          /\ \A resp \in FailedResponses : ModelFails(resp) => FailureReported ]_vars

\* C38: in every request record of the bus, the responseData, when set, is the
\* response to the model call that created the record, also after the agent's
\* id was registered again by a new instance whose iteration numbers restart.
C38_ResponseInItsRecord ==
    \A k \in 1..Len(bus.llmRequests) :
        bus.llmRequests[k].responseData # NoResponseData
            => bus.llmRequests[k].responseData = bus.llmRequests[k].call

====
